---- MODULE Spec2Model ----
(***************************************************************************)
(* Image-effects pipeline of the color grid generator.                     *)
(*                                                                         *)
(* The module models src/src/utils/effectsUtils.ts: applyEffectsToCanvas   *)
(* (the pipeline), applyCanvasEffects (the CSS filter pass) and the raster *)
(* transforms applyGamma, applyThreshold, applyEdgeDetection,              *)
(* applyRGBShift and applyDithering.                                       *)
(*                                                                         *)
(* Conventions                                                             *)
(*  - an ImageData is a record [width, height, data]; data is the flat     *)
(*    Uint8ClampedArray, a function from 0..width*height*4-1 to 0..255;    *)
(*  - a store into a Uint8ClampedArray clamps to [0,255] and rounds to the *)
(*    nearest integer, ties to even (ToUint8Clamp);                        *)
(*  - a descriptor is [type, enabled, config]; config is [present, value]: *)
(*    value is the single numeric parameter of the kind (blur.radius,      *)
(*    gamma.value, threshold.value, rgbShift.amount, vignette.strength)    *)
(*    and present = FALSE stands for a missing sub-record (undefined);     *)
(*  - a gamma value is held in tenths (12 is 1.2), the slider's step;      *)
(*  - the 2D bitmap of a canvas keeps the samples written by putImageData  *)
(*    as they are.                                                         *)
(***************************************************************************)
EXTENDS Integers, Sequences, FiniteSets, TLC

VARIABLES
    canvas,          \* the input canvas: [width, height, data]
    hasContext,      \* whether canvas.getContext('2d') yields a context
    effects,         \* the effect chain handed to the pipeline
    pc,              \* position in applyEffectsToCanvas
    idx,             \* number of the next iteration of the for-of loop
    processedData,   \* the ImageData threaded through the loop
    processedCanvas, \* the canvas created for the result
    returned,        \* which canvas the call returned
    error,           \* the exception that ended the call, if any
    console,         \* messages written to the console
    image,           \* a transform called on its own: the ImageData passed
    param,           \* ... its numeric argument
    result,          \* ... the ImageData it returned
    calls,           \* ... the number of calls made so far
    history,         \* useGridHistory: the list of GridState records
    currentIndex     \* useGridHistory: the index (from 0) of the current one

pipelineVars == <<canvas, hasContext, effects, pc, idx, processedData,
                  processedCanvas, returned, error, console>>

transformVars == <<image, param, result, calls>>

historyVars == <<history, currentIndex>>

vars == <<pipelineVars, transformVars, historyVars>>

(* the history hook is not mounted *)
HistoryIdle == history = <<>> /\ currentIndex = 0

----------------------------------------------------------------------------
(* Bounds of the model *)

MaxPixels == 4

MaxChain == 2

MaxCalls == 2

MaxEdgePixels == 12

MaxHistory == 4

MaxEdgeSide == 4

MaxDitherPixels == 6

----------------------------------------------------------------------------
(* Numeric helpers *)

Min(a, b) == IF a < b THEN a ELSE b

Max(a, b) == IF a > b THEN a ELSE b

(* n/d rounded to the nearest integer, ties to even, for n >= 0, d > 0 *)
RoundHalfEven(n, d) ==
    LET q == n \div d
        r == n % d
    IN  IF 2 * r < d THEN q
        ELSE IF 2 * r > d THEN q + 1
        ELSE IF q % 2 = 0 THEN q ELSE q + 1

(* the value a Uint8ClampedArray keeps when the real n/d is stored (d > 0) *)
ToUint8Clamp(n, d) ==
    IF n <= 0 THEN 0
    ELSE IF n >= 255 * d THEN 255
    ELSE RoundHalfEven(n, d)

(* data[i] of a typed array: undefined outside the array, and undefined is
   stored as 0 *)
ReadOrZero(data, i) == IF i \in DOMAIN data THEN data[i] ELSE 0

NoImage == [width |-> 0, height |-> 0, data |-> <<>>]

----------------------------------------------------------------------------
(* Math.pow(v / 255, 1 / gamma) * 255 stored into the clamped array, for
   v = 0..255, tabulated for the gamma values of the model *)

GammaTable05 ==
  <<
     0, 0, 0, 0, 0, 0, 0, 0, 0, 0, 0, 0, 1, 1, 1, 1,
     1, 1, 1, 1, 2, 2, 2, 2, 2, 2, 3, 3, 3, 3, 4, 4,
     4, 4, 5, 5, 5, 5, 6, 6, 6, 7, 7, 7, 8, 8, 8, 9,
     9, 9, 10, 10, 11, 11, 11, 12, 12, 13, 13, 14, 14, 15, 15, 16,
     16, 17, 17, 18, 18, 19, 19, 20, 20, 21, 21, 22, 23, 23, 24, 24,
     25, 26, 26, 27, 28, 28, 29, 30, 30, 31, 32, 32, 33, 34, 35, 35,
     36, 37, 38, 38, 39, 40, 41, 42, 42, 43, 44, 45, 46, 47, 47, 48,
     49, 50, 51, 52, 53, 54, 55, 56, 56, 57, 58, 59, 60, 61, 62, 63,
     64, 65, 66, 67, 68, 69, 70, 71, 73, 74, 75, 76, 77, 78, 79, 80,
     81, 82, 84, 85, 86, 87, 88, 89, 91, 92, 93, 94, 95, 97, 98, 99,
     100, 102, 103, 104, 105, 107, 108, 109, 111, 112, 113, 115, 116, 117, 119, 120,
     121, 123, 124, 126, 127, 128, 130, 131, 133, 134, 136, 137, 139, 140, 142, 143,
     145, 146, 148, 149, 151, 152, 154, 155, 157, 158, 160, 162, 163, 165, 166, 168,
     170, 171, 173, 175, 176, 178, 180, 181, 183, 185, 186, 188, 190, 192, 193, 195,
     197, 199, 200, 202, 204, 206, 207, 209, 211, 213, 215, 217, 218, 220, 222, 224,
     226, 228, 230, 232, 233, 235, 237, 239, 241, 243, 245, 247, 249, 251, 253, 255
  >>

GammaTable12 ==
  <<
     0, 3, 4, 6, 8, 10, 11, 13, 14, 16, 17, 19, 20, 21, 23, 24,
     25, 27, 28, 29, 31, 32, 33, 34, 36, 37, 38, 39, 40, 42, 43, 44,
     45, 46, 48, 49, 50, 51, 52, 53, 54, 56, 57, 58, 59, 60, 61, 62,
     63, 65, 66, 67, 68, 69, 70, 71, 72, 73, 74, 75, 76, 77, 78, 80,
     81, 82, 83, 84, 85, 86, 87, 88, 89, 90, 91, 92, 93, 94, 95, 96,
     97, 98, 99, 100, 101, 102, 103, 104, 105, 106, 107, 108, 109, 110, 111, 112,
     113, 114, 115, 116, 117, 118, 119, 120, 121, 122, 123, 124, 125, 126, 127, 128,
     128, 129, 130, 131, 132, 133, 134, 135, 136, 137, 138, 139, 140, 141, 142, 143,
     144, 145, 145, 146, 147, 148, 149, 150, 151, 152, 153, 154, 155, 156, 157, 157,
     158, 159, 160, 161, 162, 163, 164, 165, 166, 167, 168, 168, 169, 170, 171, 172,
     173, 174, 175, 176, 177, 177, 178, 179, 180, 181, 182, 183, 184, 185, 185, 186,
     187, 188, 189, 190, 191, 192, 193, 193, 194, 195, 196, 197, 198, 199, 200, 200,
     201, 202, 203, 204, 205, 206, 207, 207, 208, 209, 210, 211, 212, 213, 213, 214,
     215, 216, 217, 218, 219, 219, 220, 221, 222, 223, 224, 225, 225, 226, 227, 228,
     229, 230, 231, 231, 232, 233, 234, 235, 236, 237, 237, 238, 239, 240, 241, 242,
     242, 243, 244, 245, 246, 247, 247, 248, 249, 250, 251, 252, 252, 253, 254, 255
  >>

GammaTable20 ==
  <<
     0, 16, 23, 28, 32, 36, 39, 42, 45, 48, 50, 53, 55, 58, 60, 62,
     64, 66, 68, 70, 71, 73, 75, 77, 78, 80, 81, 83, 84, 86, 87, 89,
     90, 92, 93, 94, 96, 97, 98, 100, 101, 102, 103, 105, 106, 107, 108, 109,
     111, 112, 113, 114, 115, 116, 117, 118, 119, 121, 122, 123, 124, 125, 126, 127,
     128, 129, 130, 131, 132, 133, 134, 135, 135, 136, 137, 138, 139, 140, 141, 142,
     143, 144, 145, 145, 146, 147, 148, 149, 150, 151, 151, 152, 153, 154, 155, 156,
     156, 157, 158, 159, 160, 160, 161, 162, 163, 164, 164, 165, 166, 167, 167, 168,
     169, 170, 170, 171, 172, 173, 173, 174, 175, 176, 176, 177, 178, 179, 179, 180,
     181, 181, 182, 183, 183, 184, 185, 186, 186, 187, 188, 188, 189, 190, 190, 191,
     192, 192, 193, 194, 194, 195, 196, 196, 197, 198, 198, 199, 199, 200, 201, 201,
     202, 203, 203, 204, 204, 205, 206, 206, 207, 208, 208, 209, 209, 210, 211, 211,
     212, 212, 213, 214, 214, 215, 215, 216, 217, 217, 218, 218, 219, 220, 220, 221,
     221, 222, 222, 223, 224, 224, 225, 225, 226, 226, 227, 228, 228, 229, 229, 230,
     230, 231, 231, 232, 233, 233, 234, 234, 235, 235, 236, 236, 237, 237, 238, 238,
     239, 240, 240, 241, 241, 242, 242, 243, 243, 244, 244, 245, 245, 246, 246, 247,
     247, 248, 248, 249, 249, 250, 250, 251, 251, 252, 252, 253, 253, 254, 254, 255
  >>

GammaTable07 ==
  <<
     0, 0, 0, 0, 1, 1, 1, 1, 2, 2, 2, 3, 3, 4, 4, 4,
     5, 5, 6, 6, 7, 7, 8, 8, 9, 9, 10, 10, 11, 11, 12, 13,
     13, 14, 14, 15, 16, 16, 17, 17, 18, 19, 19, 20, 21, 21, 22, 23,
     23, 24, 25, 26, 26, 27, 28, 29, 29, 30, 31, 32, 32, 33, 34, 35,
     35, 36, 37, 38, 39, 39, 40, 41, 42, 43, 44, 44, 45, 46, 47, 48,
     49, 50, 50, 51, 52, 53, 54, 55, 56, 57, 58, 59, 59, 60, 61, 62,
     63, 64, 65, 66, 67, 68, 69, 70, 71, 72, 73, 74, 75, 76, 77, 78,
     79, 80, 81, 82, 83, 84, 85, 86, 87, 88, 89, 90, 91, 92, 93, 94,
     95, 96, 97, 98, 100, 101, 102, 103, 104, 105, 106, 107, 108, 109, 110, 112,
     113, 114, 115, 116, 117, 118, 119, 121, 122, 123, 124, 125, 126, 128, 129, 130,
     131, 132, 133, 135, 136, 137, 138, 139, 140, 142, 143, 144, 145, 146, 148, 149,
     150, 151, 153, 154, 155, 156, 158, 159, 160, 161, 162, 164, 165, 166, 167, 169,
     170, 171, 173, 174, 175, 176, 178, 179, 180, 182, 183, 184, 185, 187, 188, 189,
     191, 192, 193, 195, 196, 197, 199, 200, 201, 203, 204, 205, 207, 208, 209, 211,
     212, 213, 215, 216, 217, 219, 220, 221, 223, 224, 226, 227, 228, 230, 231, 232,
     234, 235, 237, 238, 239, 241, 242, 244, 245, 246, 248, 249, 251, 252, 254, 255
  >>

GammaTable08 ==
  <<
     0, 0, 1, 1, 1, 2, 2, 3, 3, 4, 4, 5, 6, 6, 7, 7,
     8, 9, 9, 10, 11, 11, 12, 13, 13, 14, 15, 15, 16, 17, 18, 18,
     19, 20, 21, 21, 22, 23, 24, 24, 25, 26, 27, 28, 28, 29, 30, 31,
     32, 32, 33, 34, 35, 36, 37, 37, 38, 39, 40, 41, 42, 43, 44, 44,
     45, 46, 47, 48, 49, 50, 51, 52, 52, 53, 54, 55, 56, 57, 58, 59,
     60, 61, 62, 63, 64, 65, 66, 66, 67, 68, 69, 70, 71, 72, 73, 74,
     75, 76, 77, 78, 79, 80, 81, 82, 83, 84, 85, 86, 87, 88, 89, 90,
     91, 92, 93, 94, 95, 96, 97, 98, 99, 100, 101, 103, 104, 105, 106, 107,
     108, 109, 110, 111, 112, 113, 114, 115, 116, 117, 118, 119, 121, 122, 123, 124,
     125, 126, 127, 128, 129, 130, 131, 132, 134, 135, 136, 137, 138, 139, 140, 141,
     142, 144, 145, 146, 147, 148, 149, 150, 151, 152, 154, 155, 156, 157, 158, 159,
     160, 162, 163, 164, 165, 166, 167, 168, 170, 171, 172, 173, 174, 175, 177, 178,
     179, 180, 181, 182, 184, 185, 186, 187, 188, 189, 191, 192, 193, 194, 195, 196,
     198, 199, 200, 201, 202, 204, 205, 206, 207, 208, 210, 211, 212, 213, 214, 216,
     217, 218, 219, 220, 222, 223, 224, 225, 227, 228, 229, 230, 231, 233, 234, 235,
     236, 238, 239, 240, 241, 243, 244, 245, 246, 248, 249, 250, 251, 253, 254, 255
  >>

GammaTable30 ==
  <<
     0, 40, 51, 58, 64, 69, 73, 77, 80, 84, 87, 89, 92, 95, 97, 99,
     101, 103, 105, 107, 109, 111, 113, 114, 116, 118, 119, 121, 122, 124, 125, 126,
     128, 129, 130, 132, 133, 134, 135, 136, 138, 139, 140, 141, 142, 143, 144, 145,
     146, 147, 148, 149, 150, 151, 152, 153, 154, 155, 156, 157, 157, 158, 159, 160,
     161, 162, 163, 163, 164, 165, 166, 167, 167, 168, 169, 170, 170, 171, 172, 173,
     173, 174, 175, 175, 176, 177, 177, 178, 179, 180, 180, 181, 182, 182, 183, 183,
     184, 185, 185, 186, 187, 187, 188, 188, 189, 190, 190, 191, 191, 192, 193, 193,
     194, 194, 195, 196, 196, 197, 197, 198, 198, 199, 199, 200, 201, 201, 202, 202,
     203, 203, 204, 204, 205, 205, 206, 206, 207, 207, 208, 208, 209, 209, 210, 210,
     211, 211, 212, 212, 213, 213, 214, 214, 215, 215, 216, 216, 216, 217, 217, 218,
     218, 219, 219, 220, 220, 221, 221, 221, 222, 222, 223, 223, 224, 224, 224, 225,
     225, 226, 226, 227, 227, 227, 228, 228, 229, 229, 230, 230, 230, 231, 231, 232,
     232, 232, 233, 233, 234, 234, 234, 235, 235, 236, 236, 236, 237, 237, 237, 238,
     238, 239, 239, 239, 240, 240, 241, 241, 241, 242, 242, 242, 243, 243, 243, 244,
     244, 245, 245, 245, 246, 246, 246, 247, 247, 247, 248, 248, 249, 249, 249, 250,
     250, 250, 251, 251, 251, 252, 252, 252, 253, 253, 253, 254, 254, 254, 255, 255
  >>

GammaTableInv07 ==
  <<
     0, 5, 9, 11, 14, 16, 18, 21, 23, 25, 26, 28, 30, 32, 33, 35,
     37, 38, 40, 41, 43, 44, 46, 47, 49, 50, 52, 53, 54, 56, 57, 58,
     60, 61, 62, 64, 65, 66, 67, 69, 70, 71, 72, 73, 75, 76, 77, 78,
     79, 80, 82, 83, 84, 85, 86, 87, 88, 89, 90, 92, 93, 94, 95, 96,
     97, 98, 99, 100, 101, 102, 103, 104, 105, 106, 107, 108, 109, 110, 111, 112,
     113, 114, 115, 116, 117, 118, 119, 120, 121, 122, 123, 124, 125, 126, 127, 128,
     129, 130, 131, 131, 132, 133, 134, 135, 136, 137, 138, 139, 140, 141, 142, 142,
     143, 144, 145, 146, 147, 148, 149, 150, 150, 151, 152, 153, 154, 155, 156, 157,
     157, 158, 159, 160, 161, 162, 163, 163, 164, 165, 166, 167, 168, 168, 169, 170,
     171, 172, 173, 173, 174, 175, 176, 177, 178, 178, 179, 180, 181, 182, 182, 183,
     184, 185, 186, 186, 187, 188, 189, 190, 190, 191, 192, 193, 194, 194, 195, 196,
     197, 197, 198, 199, 200, 201, 201, 202, 203, 204, 204, 205, 206, 207, 208, 208,
     209, 210, 211, 211, 212, 213, 214, 214, 215, 216, 217, 217, 218, 219, 220, 220,
     221, 222, 223, 223, 224, 225, 226, 226, 227, 228, 228, 229, 230, 231, 231, 232,
     233, 234, 234, 235, 236, 237, 237, 238, 239, 239, 240, 241, 242, 242, 243, 244,
     244, 245, 246, 247, 247, 248, 249, 249, 250, 251, 251, 252, 253, 254, 254, 255
  >>

GammaTableInv08 ==
  <<
     0, 3, 5, 7, 9, 11, 13, 14, 16, 18, 19, 21, 22, 24, 25, 26,
     28, 29, 31, 32, 33, 35, 36, 37, 39, 40, 41, 42, 44, 45, 46, 47,
     48, 50, 51, 52, 53, 54, 56, 57, 58, 59, 60, 61, 63, 64, 65, 66,
     67, 68, 69, 70, 71, 73, 74, 75, 76, 77, 78, 79, 80, 81, 82, 83,
     84, 85, 86, 88, 89, 90, 91, 92, 93, 94, 95, 96, 97, 98, 99, 100,
     101, 102, 103, 104, 105, 106, 107, 108, 109, 110, 111, 112, 113, 114, 115, 116,
     117, 118, 119, 120, 121, 122, 123, 123, 124, 125, 126, 127, 128, 129, 130, 131,
     132, 133, 134, 135, 136, 137, 138, 139, 140, 140, 141, 142, 143, 144, 145, 146,
     147, 148, 149, 150, 151, 151, 152, 153, 154, 155, 156, 157, 158, 159, 160, 161,
     161, 162, 163, 164, 165, 166, 167, 168, 169, 169, 170, 171, 172, 173, 174, 175,
     176, 177, 177, 178, 179, 180, 181, 182, 183, 183, 184, 185, 186, 187, 188, 189,
     190, 190, 191, 192, 193, 194, 195, 196, 196, 197, 198, 199, 200, 201, 202, 202,
     203, 204, 205, 206, 207, 207, 208, 209, 210, 211, 212, 212, 213, 214, 215, 216,
     217, 217, 218, 219, 220, 221, 222, 222, 223, 224, 225, 226, 227, 227, 228, 229,
     230, 231, 232, 232, 233, 234, 235, 236, 236, 237, 238, 239, 240, 240, 241, 242,
     243, 244, 245, 245, 246, 247, 248, 249, 249, 250, 251, 252, 253, 253, 254, 255
  >>

GammaTableInv12 ==
  <<
     0, 0, 1, 1, 2, 2, 3, 3, 4, 5, 5, 6, 7, 7, 8, 9,
     9, 10, 11, 11, 12, 13, 13, 14, 15, 16, 16, 17, 18, 19, 20, 20,
     21, 22, 23, 24, 24, 25, 26, 27, 28, 28, 29, 30, 31, 32, 33, 34,
     34, 35, 36, 37, 38, 39, 40, 40, 41, 42, 43, 44, 45, 46, 47, 48,
     49, 49, 50, 51, 52, 53, 54, 55, 56, 57, 58, 59, 60, 61, 62, 62,
     63, 64, 65, 66, 67, 68, 69, 70, 71, 72, 73, 74, 75, 76, 77, 78,
     79, 80, 81, 82, 83, 84, 85, 86, 87, 88, 89, 90, 91, 92, 93, 94,
     95, 96, 97, 98, 99, 100, 101, 102, 103, 104, 105, 106, 107, 108, 109, 110,
     112, 113, 114, 115, 116, 117, 118, 119, 120, 121, 122, 123, 124, 125, 126, 127,
     128, 130, 131, 132, 133, 134, 135, 136, 137, 138, 139, 140, 141, 142, 144, 145,
     146, 147, 148, 149, 150, 151, 152, 153, 155, 156, 157, 158, 159, 160, 161, 162,
     163, 165, 166, 167, 168, 169, 170, 171, 172, 173, 175, 176, 177, 178, 179, 180,
     181, 183, 184, 185, 186, 187, 188, 189, 191, 192, 193, 194, 195, 196, 197, 199,
     200, 201, 202, 203, 204, 205, 207, 208, 209, 210, 211, 212, 214, 215, 216, 217,
     218, 219, 221, 222, 223, 224, 225, 226, 228, 229, 230, 231, 232, 234, 235, 236,
     237, 238, 239, 241, 242, 243, 244, 245, 247, 248, 249, 250, 251, 253, 254, 255
  >>

GammaTableInv30 ==
  <<
     0, 0, 0, 0, 0, 0, 0, 0, 0, 0, 0, 0, 0, 0, 0, 0,
     0, 0, 0, 0, 0, 0, 0, 0, 0, 0, 0, 0, 0, 0, 0, 0,
     1, 1, 1, 1, 1, 1, 1, 1, 1, 1, 1, 1, 1, 1, 1, 2,
     2, 2, 2, 2, 2, 2, 2, 3, 3, 3, 3, 3, 3, 3, 4, 4,
     4, 4, 4, 5, 5, 5, 5, 6, 6, 6, 6, 6, 7, 7, 7, 8,
     8, 8, 8, 9, 9, 9, 10, 10, 10, 11, 11, 12, 12, 12, 13, 13,
     14, 14, 14, 15, 15, 16, 16, 17, 17, 18, 18, 19, 19, 20, 20, 21,
     22, 22, 23, 23, 24, 25, 25, 26, 27, 27, 28, 29, 29, 30, 31, 32,
     32, 33, 34, 35, 35, 36, 37, 38, 39, 40, 40, 41, 42, 43, 44, 45,
     46, 47, 48, 49, 50, 51, 52, 53, 54, 55, 56, 57, 58, 60, 61, 62,
     63, 64, 65, 67, 68, 69, 70, 72, 73, 74, 76, 77, 78, 80, 81, 82,
     84, 85, 87, 88, 90, 91, 93, 94, 96, 97, 99, 101, 102, 104, 105, 107,
     109, 111, 112, 114, 116, 118, 119, 121, 123, 125, 127, 129, 131, 132, 134, 136,
     138, 140, 142, 144, 147, 149, 151, 153, 155, 157, 159, 162, 164, 166, 168, 171,
     173, 175, 178, 180, 182, 185, 187, 190, 192, 195, 197, 200, 202, 205, 207, 210,
     213, 215, 218, 221, 223, 226, 229, 232, 235, 237, 240, 243, 246, 249, 252, 255
  >>

GammaCurve(gammaTenths, v) ==
    CASE gammaTenths = 5  -> GammaTable05[v + 1]
      [] gammaTenths = 7  -> GammaTable07[v + 1]
      [] gammaTenths = 8  -> GammaTable08[v + 1]
      [] gammaTenths = 10 -> v
      [] gammaTenths = 12 -> GammaTable12[v + 1]
      [] gammaTenths = 20 -> GammaTable20[v + 1]
      [] gammaTenths = 30 -> GammaTable30[v + 1]

(* the curve of the gamma 1 / (gammaTenths / 10) *)
GammaCurveOfReciprocal(gammaTenths, v) ==
    CASE gammaTenths = 5  -> GammaTable20[v + 1]
      [] gammaTenths = 7  -> GammaTableInv07[v + 1]
      [] gammaTenths = 8  -> GammaTableInv08[v + 1]
      [] gammaTenths = 10 -> v
      [] gammaTenths = 12 -> GammaTableInv12[v + 1]
      [] gammaTenths = 20 -> GammaTable05[v + 1]
      [] gammaTenths = 30 -> GammaTableInv30[v + 1]

----------------------------------------------------------------------------
(* The raster transforms *)

(* first index of the pixel that sample i belongs to *)
PixelBase(i) == i - (i % 4)

(* applyGamma called with the gamma 1 / (gammaTenths / 10) *)
applyGammaOfReciprocal(imageData, gammaTenths) ==
    [imageData EXCEPT !.data =
        [i \in DOMAIN imageData.data |->
            IF i % 4 = 3 THEN imageData.data[i]
            ELSE GammaCurveOfReciprocal(gammaTenths, imageData.data[i])]]

applyGammaWithoutCorrection(imageData, gammaTenths) ==
    applyGammaOfReciprocal(imageData, gammaTenths)

(* the power written back without the factor 255: a sample is 0 or 1 *)
applyGammaUnscaled(imageData, gammaTenths) ==
    [imageData EXCEPT !.data =
        [i \in DOMAIN imageData.data |->
            IF i % 4 = 3 THEN imageData.data[i]
            ELSE IF GammaCurve(gammaTenths, imageData.data[i]) >= 128 THEN 1
            ELSE 0]]

applyGamma(imageData, gammaTenths) ==
    [imageData EXCEPT !.data =
        [i \in DOMAIN imageData.data |->
            IF i % 4 = 3 THEN imageData.data[i]
            ELSE GammaCurve(gammaTenths, imageData.data[i])]]

(* gray > threshold with gray = (r + g + b) / 3 *)
GrayAbove(data, i, threshold) ==
    data[PixelBase(i)] + data[PixelBase(i) + 1] + data[PixelBase(i) + 2]
        > 3 * threshold

applyThresholdInverted(imageData, threshold) ==
    [imageData EXCEPT !.data =
        [i \in DOMAIN imageData.data |->
            IF i % 4 = 3 THEN imageData.data[i]
            ELSE IF GrayAbove(imageData.data, i, threshold) THEN 0 ELSE 255]]

applyThresholdAtLeast(imageData, threshold) ==
    [imageData EXCEPT !.data =
        [i \in DOMAIN imageData.data |->
            IF i % 4 = 3 THEN imageData.data[i]
            ELSE IF GrayAbove(imageData.data, i, threshold)
                    \/ imageData.data[PixelBase(i)]
                         + imageData.data[PixelBase(i) + 1]
                         + imageData.data[PixelBase(i) + 2] = 3 * threshold
                 THEN 255 ELSE 0]]

applyThreshold(imageData, threshold) ==
    [imageData EXCEPT !.data =
        [i \in DOMAIN imageData.data |->
            IF i % 4 = 3 THEN imageData.data[i]
            ELSE IF GrayAbove(imageData.data, i, threshold) THEN 255 ELSE 0]]

(* three times the gray value of the pixel at column x, row y *)
Gray3(data, width, x, y) ==
    LET p == (y * width + x) * 4
    IN  data[p] + data[p + 1] + data[p + 2]

sobelXWrongSign == <<<<-1, 0, 1>>, <<-2, 0, 2>>, <<1, 0, 1>>>>

sobelX == <<<<-1, 0, 1>>, <<-2, 0, 2>>, <<-1, 0, 1>>>>

sobelY == <<<<-1, -2, -1>>, <<0, 0, 0>>, <<1, 2, 1>>>>

(* sum over the 3x3 neighbourhood of gray * kernel, times three *)
Convolve3(data, width, x, y, kernel) ==
    LET Row(i) == Gray3(data, width, x - 1, y + i) * kernel[i + 2][1]
                + Gray3(data, width, x, y + i) * kernel[i + 2][2]
                + Gray3(data, width, x + 1, y + i) * kernel[i + 2][3]
    IN  Row(-1) + Row(0) + Row(1)

(* sqrt(s) / 3 as the clamped array keeps it: the m with
   (m - 1/2) <= sqrt(s)/3 < (m + 1/2), at most 255 *)
Magnitude(s) ==
    IF 4 * s >= 9 * 509 * 509 THEN 255
    ELSE CHOOSE m \in 0..254 :
            /\ (m = 0 \/ 9 * (2 * m - 1) * (2 * m - 1) <= 4 * s)
            /\ 4 * s < 9 * (2 * m + 1) * (2 * m + 1)

applyEdgeDetectionWithoutAlpha(imageData) ==
    LET width == imageData.width
        height == imageData.height
        data == imageData.data
        Interior(x, y) == x >= 1 /\ x < width - 1 /\ y >= 1 /\ y < height - 1
        Sample(i) ==
            LET p == i \div 4
                x == p % width
                y == p \div width
                pixelX == Convolve3(data, width, x, y, sobelX)
                pixelY == Convolve3(data, width, x, y, sobelY)
            IN  IF ~Interior(x, y) THEN 0
                ELSE IF i % 4 = 3 THEN 0
                ELSE Magnitude(pixelX * pixelX + pixelY * pixelY)
    IN  [imageData EXCEPT !.data = [i \in DOMAIN data |-> Sample(i)]]

applyEdgeDetection(imageData) ==
    LET width == imageData.width
        height == imageData.height
        data == imageData.data
        Interior(x, y) == x >= 1 /\ x < width - 1 /\ y >= 1 /\ y < height - 1
        Sample(i) ==
            LET p == i \div 4
                x == p % width
                y == p \div width
                pixelX == Convolve3(data, width, x, y, sobelX)
                pixelY == Convolve3(data, width, x, y, sobelY)
            IN  IF ~Interior(x, y) THEN 0
                ELSE IF i % 4 = 3 THEN 255
                ELSE Magnitude(pixelX * pixelX + pixelY * pixelY)
    IN  [imageData EXCEPT !.data = [i \in DOMAIN data |-> Sample(i)]]

(* every channel read at its own column *)
applyRGBShiftUnshifted(imageData, amount) ==
    [imageData EXCEPT !.data = [i \in DOMAIN imageData.data |-> imageData.data[i]]]

applyRGBShift(imageData, amount) ==
    LET width == imageData.width
        data == imageData.data
        Sample(i) ==
            LET p == i \div 4
                x == p % width
                y == p \div width
                redX == Min(width - 1, x + amount)
                blueX == Max(0, x - amount)
            IN  CASE i % 4 = 0 -> ReadOrZero(data, (y * width + redX) * 4)
                  [] i % 4 = 2 -> ReadOrZero(data, (y * width + blueX) * 4 + 2)
                  [] OTHER -> data[i]
    IN  [imageData EXCEPT !.data = [i \in DOMAIN data |-> Sample(i)]]

(* data[i] = Math.min(255, Math.max(0, data[i] + error * weight / 16)) *)
Diffuse(data, i, err, weight) ==
    [data EXCEPT ![i] = ToUint8Clamp(16 * data[i] + err * weight, 16)]

DitherChannelLeftward(data, width, height, x, y, c) ==
    LET i == (y * width + x) * 4 + c
        oldPixel == data[i]
        newPixel == IF oldPixel > 128 THEN 255 ELSE 0
        err == oldPixel - newPixel
        d0 == [data EXCEPT ![i] = newPixel]
        d1 == IF x > 0
              THEN Diffuse(d0, (y * width + (x - 1)) * 4 + c, err, 7)
              ELSE d0
        d2 == IF y + 1 < height /\ x > 0
              THEN Diffuse(d1, ((y + 1) * width + (x - 1)) * 4 + c, err, 3)
              ELSE d1
        d3 == IF y + 1 < height
              THEN Diffuse(d2, ((y + 1) * width + x) * 4 + c, err, 5)
              ELSE d2
        d4 == IF y + 1 < height /\ x + 1 < width
              THEN Diffuse(d3, ((y + 1) * width + (x + 1)) * 4 + c, err, 1)
              ELSE d3
    IN  d4

(* the right neighbour written without the test x + 1 < width *)
DitherChannelWrapping(data, width, height, x, y, c) ==
    LET i == (y * width + x) * 4 + c
        oldPixel == data[i]
        newPixel == IF oldPixel > 128 THEN 255 ELSE 0
        err == oldPixel - newPixel
        rightIdx == (y * width + (x + 1)) * 4 + c
        d0 == [data EXCEPT ![i] = newPixel]
        d1 == IF rightIdx \in DOMAIN data
              THEN Diffuse(d0, rightIdx, err, 7)
              ELSE d0
        d2 == IF y + 1 < height /\ x > 0
              THEN Diffuse(d1, ((y + 1) * width + (x - 1)) * 4 + c, err, 3)
              ELSE d1
        d3 == IF y + 1 < height
              THEN Diffuse(d2, ((y + 1) * width + x) * 4 + c, err, 5)
              ELSE d2
        d4 == IF y + 1 < height /\ x + 1 < width
              THEN Diffuse(d3, ((y + 1) * width + (x + 1)) * 4 + c, err, 1)
              ELSE d3
    IN  d4

(* the body of the channel loop for channel c of the pixel at (x, y) *)
DitherChannel(data, width, height, x, y, c) ==
    LET i == (y * width + x) * 4 + c
        oldPixel == data[i]
        newPixel == IF oldPixel > 128 THEN 255 ELSE 0
        err == oldPixel - newPixel
        d0 == [data EXCEPT ![i] = newPixel]
        d1 == IF x + 1 < width
              THEN Diffuse(d0, (y * width + (x + 1)) * 4 + c, err, 7)
              ELSE d0
        d2 == IF y + 1 < height /\ x > 0
              THEN Diffuse(d1, ((y + 1) * width + (x - 1)) * 4 + c, err, 3)
              ELSE d1
        d3 == IF y + 1 < height
              THEN Diffuse(d2, ((y + 1) * width + x) * 4 + c, err, 5)
              ELSE d2
        d4 == IF y + 1 < height /\ x + 1 < width
              THEN Diffuse(d3, ((y + 1) * width + (x + 1)) * 4 + c, err, 1)
              ELSE d3
    IN  d4

(* the loops over y, x and c from their k-th iteration on: k counts the
   channel visits in row-major order, three per pixel *)
RECURSIVE DitherFrom(_, _, _, _)
DitherFrom(data, width, height, k) ==
    IF k >= width * height * 3 THEN data
    ELSE LET p == k \div 3
         IN  DitherFrom(DitherChannel(data, width, height,
                                      p % width, p \div width, k % 3),
                        width, height, k + 1)

applyDithering(imageData) ==
    [imageData EXCEPT !.data =
        DitherFrom(imageData.data, imageData.width, imageData.height, 0)]

----------------------------------------------------------------------------
(* Effect descriptors *)

EffectType ==
    {"blur", "grain", "gamma", "threshold", "stippling", "halftone",
     "edge-detection", "vignette", "rgb-shift", "crt-screen", "led-screen",
     "dithering"}

RasterTypes == {"gamma", "threshold", "edge-detection", "rgb-shift", "dithering"}

CompositeTypes == {"blur", "vignette"}

Config(v) == [present |-> TRUE, value |-> v]

NoConfig == [present |-> FALSE, value |-> 0]

Effect(type, enabled, config) ==
    [type |-> type, enabled |-> enabled, config |-> config]

(* config.x?.value || fallback: the fallback replaces undefined and 0 *)
OrDefault(config, fallback) ==
    IF ~config.present \/ config.value = 0 THEN fallback ELSE config.value

(* the arguments the pipeline passes to the transforms *)
GammaArg(effect) == OrDefault(effect.config, 10)

ThresholdArg(effect) == OrDefault(effect.config, 128)

RGBShiftArg(effect) == OrDefault(effect.config, 3)

BlurArg(effect) == OrDefault(effect.config, 2)

----------------------------------------------------------------------------
(* applyEffectsToCanvas *)

(* the switch of the raster loop; a kind without a case leaves the data *)
RasterSwitch(data, effect) ==
    CASE effect.type = "gamma" -> applyGamma(data, GammaArg(effect))
      [] effect.type = "threshold" -> applyThreshold(data, ThresholdArg(effect))
      [] effect.type = "edge-detection" -> applyEdgeDetection(data)
      [] effect.type = "rgb-shift" -> applyRGBShift(data, RGBShiftArg(effect))
      [] effect.type = "dithering" -> applyDithering(data)
      [] OTHER -> data

RasterIterationIgnoringEnabled(data, effect) == RasterSwitch(data, effect)

(* one iteration of the raster loop *)
RasterIteration(data, effect) ==
    IF ~effect.enabled THEN data ELSE RasterSwitch(data, effect)

LoopEffectReversed(chain, k) == chain[Len(chain) + 1 - k]

(* the element the k-th iteration of `for (const effect of effects)` visits *)
LoopEffect(chain, k) == chain[k]

BlurFilter(radius) == [fn |-> "blur", px |-> radius]

applyCanvasEffectsWithVignetteFilter(chain) ==
    LET filters[k \in 0..Len(chain)] ==
            IF k = 0 THEN <<>>
            ELSE IF chain[k].enabled /\ chain[k].type = "blur"
                 THEN Append(filters[k - 1], BlurFilter(BlurArg(chain[k])))
            ELSE IF chain[k].enabled /\ chain[k].type = "vignette"
                 THEN Append(filters[k - 1],
                             [fn |-> "vignette", px |-> chain[k].config.value])
            ELSE filters[k - 1]
    IN  filters[Len(chain)]

applyCanvasEffectsIgnoringEnabled(chain) ==
    LET filters[k \in 0..Len(chain)] ==
            IF k = 0 THEN <<>>
            ELSE IF chain[k].type = "blur"
                 THEN Append(filters[k - 1], BlurFilter(BlurArg(chain[k])))
            ELSE filters[k - 1]
    IN  filters[Len(chain)]

(* applyCanvasEffects: the list of filters joined into canvas.style.filter;
   the empty list leaves the style of the new canvas unset *)
applyCanvasEffects(chain) ==
    LET filters[k \in 0..Len(chain)] ==
            IF k = 0 THEN <<>>
            ELSE IF chain[k].enabled /\ chain[k].type = "blur"
                 THEN Append(filters[k - 1], BlurFilter(BlurArg(chain[k])))
            ELSE filters[k - 1]
    IN  filters[Len(chain)]

NoCanvas == [width |-> 0, height |-> 0, data |-> <<>>, filter |-> <<>>]

(* const ctx = canvas.getContext('2d'); if (!ctx) return canvas; *)
ReturnWithoutContext ==
    /\ pc = "start"
    /\ ~hasContext
    /\ returned' = "canvas"
    /\ pc' = "done"
    /\ UNCHANGED <<canvas, hasContext, effects, idx, processedData,
                   processedCanvas, error, console>>
    /\ UNCHANGED transformVars
    /\ UNCHANGED historyVars

(* getImageData of an empty rectangle throws IndexSizeError *)
GetImageDataThrows ==
    /\ pc = "start"
    /\ hasContext
    /\ (canvas.width = 0 \/ canvas.height = 0)
    /\ error' = "IndexSizeError"
    /\ pc' = "threw"
    /\ UNCHANGED <<canvas, hasContext, effects, idx, processedData,
                   processedCanvas, returned, console>>
    /\ UNCHANGED transformVars
    /\ UNCHANGED historyVars

(* imageData = ctx.getImageData(...); processedData = a copy of it *)
GetImageData ==
    /\ pc = "start"
    /\ hasContext
    /\ canvas.width > 0 /\ canvas.height > 0
    /\ processedData' = [width |-> canvas.width, height |-> canvas.height,
                         data |-> canvas.data]
    /\ idx' = 1
    /\ pc' = "raster"
    /\ UNCHANGED <<canvas, hasContext, effects, processedCanvas, returned,
                   error, console>>
    /\ UNCHANGED transformVars
    /\ UNCHANGED historyVars

(* one iteration of the loop over the chain *)
RasterStep ==
    /\ pc = "raster"
    /\ idx <= Len(effects)
    /\ processedData' = RasterIteration(processedData, LoopEffect(effects, idx))
    /\ idx' = idx + 1
    /\ UNCHANGED <<canvas, hasContext, effects, pc, processedCanvas, returned,
                   error, console>>
    /\ UNCHANGED transformVars
    /\ UNCHANGED historyVars

(* the new canvas created with the height as its width *)
ReturnProcessedCanvasSwapped ==
    /\ pc = "raster"
    /\ idx > Len(effects)
    /\ processedCanvas' = [width |-> canvas.height, height |-> canvas.width,
                           data |-> processedData.data,
                           filter |-> applyCanvasEffects(effects)]
    /\ returned' = "processed"
    /\ pc' = "done"
    /\ UNCHANGED <<canvas, hasContext, effects, idx, processedData, error,
                   console>>
    /\ UNCHANGED transformVars
    /\ UNCHANGED historyVars

(* the loop is over: create the canvas, put the data, set the filters,
   return the new canvas *)
ReturnProcessedCanvas ==
    /\ pc = "raster"
    /\ idx > Len(effects)
    /\ processedCanvas' = [width |-> canvas.width, height |-> canvas.height,
                           data |-> processedData.data,
                           filter |-> applyCanvasEffects(effects)]
    /\ returned' = "processed"
    /\ pc' = "done"
    /\ UNCHANGED <<canvas, hasContext, effects, idx, processedData, error,
                   console>>
    /\ UNCHANGED transformVars
    /\ UNCHANGED historyVars

----------------------------------------------------------------------------
(* Inputs *)

(* RGBA pixels the input canvases are painted with: a half-transparent
   black and an opaque colour whose gray value 391/3 is not an integer *)
Palette == {<<0, 0, 0, 128>>, <<200, 100, 91, 255>>}

CanvasOf(width, height, pixels) ==
    [width |-> width, height |-> height,
     data |-> [i \in 0..(width * height * 4 - 1) |-> pixels[i \div 4][(i % 4) + 1]]]

(* the sizes of at most MaxPixels pixels, the empty ones included *)
Sizes == {wh \in (0..MaxPixels) \X (0..MaxPixels) : wh[1] * wh[2] <= MaxPixels}

CanvasesOver(palette) ==
    UNION {{CanvasOf(wh[1], wh[2], px) :
                px \in [0..(wh[1] * wh[2] - 1) -> palette]} : wh \in Sizes}

Canvases == CanvasesOver(Palette)

GammaValues == {20}

ThresholdValues == {-1, 128}

RGBShiftValues == {1}

BlurValues == {-1, 2, 5}

VignetteValues == {50}

EnabledEffects ==
    {Effect("gamma", TRUE, Config(v)) : v \in GammaValues}
    \cup {Effect("threshold", TRUE, Config(v)) : v \in ThresholdValues}
    \cup {Effect("rgb-shift", TRUE, Config(v)) : v \in RGBShiftValues}
    \cup {Effect("blur", TRUE, Config(v)) : v \in BlurValues}
    \cup {Effect("vignette", TRUE, Config(v)) : v \in VignetteValues}
    \cup {Effect(t, TRUE, NoConfig) :
            t \in {"edge-detection", "dithering", "stippling"}}

DisabledEffects ==
    {Effect("threshold", FALSE, Config(128)), Effect("blur", FALSE, Config(2))}

Effects == EnabledEffects \cup DisabledEffects

Chains == UNION {[1..n -> Effects] : n \in 0..MaxChain}

Init ==
    /\ canvas \in Canvases
    /\ hasContext \in BOOLEAN
    /\ effects \in Chains
    /\ pc = "start"
    /\ idx = 0
    /\ processedData = NoImage
    /\ processedCanvas = NoCanvas
    /\ returned = "none"
    /\ error = "none"
    /\ console = <<>>
    /\ image = NoImage
    /\ param = 0
    /\ result = NoImage
    /\ calls = 0
    /\ HistoryIdle

Next ==
    \/ ReturnWithoutContext
    \/ GetImageDataThrows
    \/ GetImageData
    \/ RasterStep
    \/ ReturnProcessedCanvas

Spec == Init /\ [][Next]_vars

----------------------------------------------------------------------------
(* A raster transform called on its own, repeatedly on the ImageData it
   returned.  applyThreshold writes into the array of the ImageData it is
   given and wraps the same array in the ImageData it returns, so after the
   call the caller's ImageData holds the returned samples. *)

CallApplyThreshold ==
    /\ pc = "call"
    /\ calls < MaxCalls
    /\ result' = applyThreshold(image, param)
    /\ image' = result'
    /\ calls' = calls + 1
    /\ UNCHANGED <<param, pipelineVars>>
    /\ UNCHANGED historyVars

(* pixels for the threshold: black, a gray that sits on the default
   threshold with half alpha, and the colour with gray value 391/3 *)
ThresholdPalette ==
    {<<0, 0, 0, 255>>, <<128, 128, 128, 128>>, <<200, 100, 91, 255>>}

Images ==
    {[width |-> c.width, height |-> c.height, data |-> c.data] :
        c \in {d \in CanvasesOver(ThresholdPalette) :
                   d.width > 0 /\ d.height > 0}}

ThresholdParams == -1..256

InitThreshold ==
    /\ image \in Images
    /\ param \in ThresholdParams
    /\ result = NoImage
    /\ calls = 0
    /\ pc = "call"
    /\ canvas = NoImage
    /\ hasContext = FALSE
    /\ effects = <<>>
    /\ idx = 0
    /\ processedData = NoImage
    /\ processedCanvas = NoCanvas
    /\ returned = "none"
    /\ error = "none"
    /\ console = <<>>
    /\ HistoryIdle

NextThreshold == CallApplyThreshold

SpecThreshold == InitThreshold /\ [][NextThreshold]_vars

----------------------------------------------------------------------------
(* applyEffectsToCanvas as a function of a canvas that has a 2D context and a
   non-empty bitmap: the canvas it returns *)

RasterLoop(imageData, chain) ==
    LET threaded[k \in 0..Len(chain)] ==
            IF k = 0 THEN imageData
            ELSE RasterIteration(threaded[k - 1], LoopEffect(chain, k))
    IN  threaded[Len(chain)]

applyEffectsToCanvas(cv, chain) ==
    [width |-> cv.width, height |-> cv.height,
     data |-> RasterLoop([width |-> cv.width, height |-> cv.height,
                          data |-> cv.data], chain).data,
     filter |-> applyCanvasEffects(chain)]

----------------------------------------------------------------------------
(* Properties *)

Finished == pc = "done" /\ returned = "processed"

(* the canvas the call returned *)
Output == IF returned = "canvas" THEN canvas ELSE processedCanvas

IsEnabled(e) == e.enabled

EnabledOnly(chain) == SelectSeq(chain, IsEnabled)

IsEnabledRaster(e) == e.enabled /\ e.type \in RasterTypes

AllDisabled(chain) == \A k \in DOMAIN chain : ~chain[k].enabled

(* the effect function of a raster descriptor, with the argument the
   descriptor carries *)
EffectFunction(imageData, e) ==
    CASE e.type = "gamma" -> applyGamma(imageData, GammaArg(e))
      [] e.type = "threshold" -> applyThreshold(imageData, ThresholdArg(e))
      [] e.type = "edge-detection" -> applyEdgeDetection(imageData)
      [] e.type = "rgb-shift" -> applyRGBShift(imageData, RGBShiftArg(e))
      [] e.type = "dithering" -> applyDithering(imageData)

(* f_n(... f_2(f_1(imageData))) for the descriptors of chain, left to right *)
Compose(imageData, chain) ==
    LET out[k \in 0..Len(chain)] ==
            IF k = 0 THEN imageData ELSE EffectFunction(out[k - 1], chain[k])
    IN  out[Len(chain)]

InputImage == [width |-> canvas.width, height |-> canvas.height,
               data |-> canvas.data]

(* C1: with an empty chain, or one whose descriptors are all disabled, the
   canvas the pipeline returns has the width, the height and every RGBA
   sample of the input. *)
C1_EmptyChainIsIdentity ==
    (pc = "done" /\ AllDisabled(effects)) =>
        /\ Output.width = canvas.width
        /\ Output.height = canvas.height
        /\ Output.data = canvas.data

C1_Witness ==
    /\ Finished
    /\ Len(effects) = MaxChain
    /\ AllDisabled(effects)
    /\ effects[1].type = "threshold"
    /\ canvas.width = 2
    /\ canvas.data[0] = 200
    /\ processedCanvas.data = canvas.data

(* C2: the pipeline's result, pixels and filters, is the result for the same
   chain with the disabled descriptors removed. *)
C2_DisabledHaveNoEffect ==
    Finished => processedCanvas = applyEffectsToCanvas(canvas, EnabledOnly(effects))

C2_Witness ==
    /\ Finished
    /\ Len(effects) = 2
    /\ effects[1] = Effect("threshold", FALSE, Config(128))
    /\ effects[2] = Effect("rgb-shift", TRUE, Config(1))
    /\ canvas.width = 2
    /\ processedCanvas.data # canvas.data
    /\ Len(EnabledOnly(effects)) = 1

(* C3: the raster result is the left-to-right composition of the effect
   functions of the enabled raster descriptors, each taking the output of
   the one before it. *)
C3_RasterInChainOrder ==
    Finished =>
        processedCanvas.data =
            Compose(InputImage, SelectSeq(effects, IsEnabledRaster)).data

C3_Witness ==
    /\ Finished
    /\ Len(effects) = 2
    /\ effects[1] = Effect("threshold", TRUE, Config(128))
    /\ effects[2] = Effect("rgb-shift", TRUE, Config(1))
    /\ processedCanvas.data #
         Compose(InputImage, <<effects[2], effects[1]>>).data

(* the chain with the descriptor at position i taken out and put back so
   that it stands at position j *)
MoveTo(chain, i, j) ==
    LET rest == [k \in 1..(Len(chain) - 1) |->
                    IF k < i THEN chain[k] ELSE chain[k + 1]]
    IN  [k \in 1..Len(chain) |->
            IF k < j THEN rest[k]
            ELSE IF k = j THEN chain[i]
            ELSE rest[k - 1]]

IsEnabledComposite(e) == e.enabled /\ e.type \in CompositeTypes

(* the move from i to j carries the descriptor across an enabled blur *)
CrossesBlur(chain, i, j) ==
    \E k \in Min(i, j)..Max(i, j) :
        k # i /\ chain[k].enabled /\ chain[k].type = "blur"

(* C4 as stated: moving an enabled blur or vignette descriptor to any other
   position of the chain leaves the whole output of the pipeline, pixels and
   filters, unchanged. *)
C4_MoveCompositeAnywhere ==
    Finished =>
        \A i, j \in DOMAIN effects :
            IsEnabledComposite(effects[i]) =>
                applyEffectsToCanvas(canvas, MoveTo(effects, i, j)) = processedCanvas

(* C4 amended: moving an enabled blur or vignette descriptor to any other
   position leaves the pixels of the output unchanged; it leaves the filter
   list unchanged as well when the descriptor is a vignette or is not carried
   across another enabled blur (the list has one entry per enabled blur, in
   chain order). *)
C4_MoveCompositeKeepsRaster ==
    Finished =>
        \A i, j \in DOMAIN effects :
            IsEnabledComposite(effects[i]) =>
                LET moved == applyEffectsToCanvas(canvas, MoveTo(effects, i, j))
                IN  /\ moved.width = processedCanvas.width
                    /\ moved.height = processedCanvas.height
                    /\ moved.data = processedCanvas.data
                    /\ (effects[i].type = "vignette" \/ ~CrossesBlur(effects, i, j))
                         => moved.filter = processedCanvas.filter

C4_Witness ==
    /\ Finished
    /\ Len(effects) = 2
    /\ effects[1] = Effect("blur", TRUE, Config(5))
    /\ effects[2] = Effect("threshold", TRUE, Config(128))
    /\ processedCanvas.data # canvas.data
    /\ processedCanvas.filter = <<BlurFilter(5)>>
    /\ MoveTo(effects, 1, 2) = <<effects[2], effects[1]>>

EnabledBlurs(chain) == {k \in DOMAIN chain : chain[k].enabled /\ chain[k].type = "blur"}

LastEnabledBlur(chain) ==
    CHOOSE k \in EnabledBlurs(chain) : \A m \in EnabledBlurs(chain) : m <= k

(* C5: with several enabled blur descriptors in the chain, the filters of
   the output are those of the last enabled one alone. *)
C5_LastEnabledBlurWins ==
    Finished =>
        processedCanvas.filter =
            IF EnabledBlurs(effects) = {} THEN <<>>
            ELSE <<BlurFilter(BlurArg(effects[LastEnabledBlur(effects)]))>>

IsUnsupported(e) == e.type \notin (RasterTypes \cup CompositeTypes)

(* C6: an enabled descriptor of a kind the engine does not implement is
   skipped, the other descriptors are applied as if it were absent, and a
   warning naming the descriptor is written to the console. *)
C6_UnsupportedSkippedWithWarning ==
    Finished =>
        /\ processedCanvas.data =
              Compose(InputImage, SelectSeq(effects, IsEnabledRaster)).data
        /\ \A k \in DOMAIN effects :
              (effects[k].enabled /\ IsUnsupported(effects[k])) =>
                  \E m \in DOMAIN console :
                      console[m] = [level |-> "warn", type |-> effects[k].type]

Malformed(cv) ==
    \/ cv.width <= 0
    \/ cv.height <= 0
    \/ Cardinality(DOMAIN cv.data) # cv.width * cv.height * 4

(* C7: a call that reads a malformed buffer ends with an InvalidBufferError
   and returns no canvas. *)
C7_MalformedBufferFailsFast ==
    (Malformed(canvas) /\ hasContext /\ pc \in {"done", "threw"}) =>
        error = "InvalidBufferError" /\ returned = "none"

(* the value clamped to lo..hi *)
Clamp(v, lo, hi) == Max(lo, Min(hi, v))

ClampedBlurFilters(chain) ==
    LET filters[k \in 0..Len(chain)] ==
            IF k = 0 THEN <<>>
            ELSE IF chain[k].enabled /\ chain[k].type = "blur"
                 THEN Append(filters[k - 1],
                             BlurFilter(Max(0, BlurArg(chain[k]))))
            ELSE filters[k - 1]
    IN  filters[Len(chain)]

(* C8: a threshold below 0 or above 255 gives the output of threshold 0 or
   255, a negative blur radius gives the filter of radius 0, and the call
   does not fail on them. *)
C8_ParametersClamped ==
    [][/\ (pc = "raster" /\ idx <= Len(effects)
             /\ effects[idx].enabled /\ effects[idx].type = "threshold"
             /\ effects[idx].config.value \notin 0..255)
          => processedData' =
                applyThreshold(processedData,
                               Clamp(effects[idx].config.value, 0, 255))
       /\ (pc = "raster" /\ idx > Len(effects))
          => /\ pc' = "done"
             /\ processedCanvas'.filter = ClampedBlurFilters(effects)]_vars

(* the samples of pixel p of an ImageData *)
Red(img, p) == img.data[4 * p]

Green(img, p) == img.data[4 * p + 1]

Blue(img, p) == img.data[4 * p + 2]

Alpha(img, p) == img.data[4 * p + 3]

Pixels(img) == 0..(img.width * img.height - 1)

(* C9: Threshold with parameter t gives R = G = B = 255 where
   (R + G + B) / 3 > t, that is where R + G + B > 3 * t, and R = G = B = 0
   elsewhere; every alpha sample is the input's. *)
C9_ThresholdBinarizes ==
    [][calls' = calls + 1 =>
        /\ result'.width = image.width
        /\ result'.height = image.height
        /\ DOMAIN result'.data = DOMAIN image.data
        /\ \A p \in Pixels(image) :
              LET v == IF Red(image, p) + Green(image, p) + Blue(image, p)
                            > 3 * param
                       THEN 255 ELSE 0
              IN  /\ Red(result', p) = v
                  /\ Green(result', p) = v
                  /\ Blue(result', p) = v
                  /\ Alpha(result', p) = Alpha(image, p)]_vars

C9_Witness ==
    /\ pc = "call"
    /\ calls = 1
    /\ param = 130
    /\ result.width = 2
    /\ result.data = (0 :> 0 @@ 1 :> 0 @@ 2 :> 0 @@ 3 :> 128
                      @@ 4 :> 255 @@ 5 :> 255 @@ 6 :> 255 @@ 7 :> 255)

(* C10: for t in 0..255, a second Threshold(t) on the result of the first
   returns the same buffer. *)
C10_ThresholdIdempotent ==
    [][(calls >= 1 /\ calls' = calls + 1 /\ param \in 0..255) =>
          result' = result]_vars

C10_Witness ==
    /\ pc = "call"
    /\ calls = 2
    /\ param = 128
    /\ result.width = 2
    /\ result.data = (0 :> 0 @@ 1 :> 0 @@ 2 :> 0 @@ 3 :> 128
                      @@ 4 :> 255 @@ 5 :> 255 @@ 6 :> 255 @@ 7 :> 255)

----------------------------------------------------------------------------
(* The raster transforms called on their own *)

(* the pipeline is not running *)
PipelineIdle ==
    /\ hasContext = FALSE
    /\ effects = <<>>
    /\ idx = 0
    /\ processedData = NoImage
    /\ processedCanvas = NoCanvas
    /\ returned = "none"
    /\ error = "none"
    /\ console = <<>>

(* applyRGBShift fills a new array and leaves the one it is given *)
CallApplyRGBShift ==
    /\ pc = "call"
    /\ calls < MaxCalls
    /\ result' = applyRGBShift(image, param)
    /\ calls' = calls + 1
    /\ UNCHANGED <<image, param, pipelineVars>>
    /\ UNCHANGED historyVars

RGBShiftParams == -2..5

InitRGBShift ==
    /\ image \in Images
    /\ param \in RGBShiftParams
    /\ result = NoImage
    /\ calls = 0
    /\ pc = "call"
    /\ canvas = NoImage
    /\ PipelineIdle
    /\ HistoryIdle

NextRGBShift == CallApplyRGBShift

SpecRGBShift == InitRGBShift /\ [][NextRGBShift]_vars

(* sample c (0 red, 1 green, 2 blue, 3 alpha) of the pixel at column x, row y *)
SampleAt(img, x, y, c) == img.data[(y * img.width + x) * 4 + c]

Columns(img) == 0..(img.width - 1)

Rows(img) == 0..(img.height - 1)

(* C11: for any integer amount, the output red at (x, y) is the input red at
   column clamp(x + amount) of row y, the output blue is the input blue at
   column clamp(x - amount) of row y, the columns clamped to 0..width-1, and
   green and alpha are the input's at (x, y). *)
C11_RGBShiftReadsInsideRow ==
    [][calls' = calls + 1 =>
        \A x \in Columns(image), y \in Rows(image) :
            /\ SampleAt(result', x, y, 0) =
                 SampleAt(image, Clamp(x + param, 0, image.width - 1), y, 0)
            /\ SampleAt(result', x, y, 1) = SampleAt(image, x, y, 1)
            /\ SampleAt(result', x, y, 2) =
                 SampleAt(image, Clamp(x - param, 0, image.width - 1), y, 2)
            /\ SampleAt(result', x, y, 3) = SampleAt(image, x, y, 3)]_vars

(* the part of C11 that the code keeps: amounts from 0 on *)
C11_RGBShiftNonNegative ==
    [][(calls' = calls + 1 /\ param >= 0) =>
        \A x \in Columns(image), y \in Rows(image) :
            /\ SampleAt(result', x, y, 0) =
                 SampleAt(image, Clamp(x + param, 0, image.width - 1), y, 0)
            /\ SampleAt(result', x, y, 1) = SampleAt(image, x, y, 1)
            /\ SampleAt(result', x, y, 2) =
                 SampleAt(image, Clamp(x - param, 0, image.width - 1), y, 2)
            /\ SampleAt(result', x, y, 3) = SampleAt(image, x, y, 3)]_vars

----------------------------------------------------------------------------
(* applyDithering writes into the array of the ImageData it is given and
   wraps the same array in the ImageData it returns.  The ImageData is read
   from a canvas, which keeps its samples. *)

ImageOf(cv) == [width |-> cv.width, height |-> cv.height, data |-> cv.data]

SourceCanvases ==
    {cv \in CanvasesOver(ThresholdPalette) : cv.width > 0 /\ cv.height > 0}

CallApplyDithering ==
    /\ pc = "call"
    /\ calls < MaxCalls
    /\ result' = applyDithering(image)
    /\ image' = result'
    /\ calls' = calls + 1
    /\ UNCHANGED <<param, pipelineVars>>
    /\ UNCHANGED historyVars

InitDithering ==
    /\ canvas \in SourceCanvases
    /\ image = ImageOf(canvas)
    /\ param = 0
    /\ result = NoImage
    /\ calls = 0
    /\ pc = "call"
    /\ PipelineIdle
    /\ HistoryIdle

NextDithering == CallApplyDithering

SpecDithering == InitDithering /\ [][NextDithering]_vars

(* C12: after Dithering every R, G and B sample is 0 or 255 and every alpha
   sample is the input's. *)
C12_DitheringBinarizes ==
    [][calls' = calls + 1 =>
        /\ DOMAIN result'.data = DOMAIN image.data
        /\ \A p \in Pixels(image) :
              /\ Red(result', p) \in {0, 255}
              /\ Green(result', p) \in {0, 255}
              /\ Blue(result', p) \in {0, 255}
              /\ Alpha(result', p) = Alpha(image, p)]_vars

C12_Witness ==
    /\ pc = "call"
    /\ calls = 1
    /\ canvas.width = 2 /\ canvas.height = 2
    /\ \A i \in DOMAIN canvas.data : canvas.data[i] = 128
    /\ result.data = [i \in 0..15 |->
                        IF i % 4 = 3 THEN 128
                        ELSE IF i \div 4 \in {1, 2} THEN 255 ELSE 0]

----------------------------------------------------------------------------
(* applyEdgeDetection fills a new array and leaves the one it is given *)

CallApplyEdgeDetection ==
    /\ pc = "call"
    /\ calls < MaxCalls
    /\ result' = applyEdgeDetection(image)
    /\ calls' = calls + 1
    /\ UNCHANGED <<image, param, pipelineVars>>
    /\ UNCHANGED historyVars

EdgeSizes ==
    {wh \in (1..MaxEdgeSide) \X (1..MaxEdgeSide) :
        wh[1] * wh[2] <= MaxEdgePixels}

EdgePalette == {<<0, 0, 0, 128>>, <<200, 100, 91, 255>>}

(* the colours of the images painted in one colour *)
UniformColours ==
    {<<r, g, b, a>> : r \in {0, 1, 128, 255}, g \in {0, 1, 128, 255},
                      b \in {0, 1, 128, 255}, a \in {0, 255}}

UniformImage(wh, colour) ==
    ImageOf(CanvasOf(wh[1], wh[2], [p \in 0..(wh[1] * wh[2] - 1) |-> colour]))

EdgeImages ==
    UNION {{ImageOf(CanvasOf(wh[1], wh[2], px)) :
                px \in [0..(wh[1] * wh[2] - 1) -> EdgePalette]} : wh \in EdgeSizes}
    \cup {UniformImage(wh, colour) : wh \in EdgeSizes, colour \in UniformColours}

InitEdgeDetection ==
    /\ image \in EdgeImages
    /\ param = 0
    /\ result = NoImage
    /\ calls = 0
    /\ pc = "call"
    /\ canvas = NoImage
    /\ PipelineIdle
    /\ HistoryIdle

NextEdgeDetection == CallApplyEdgeDetection

SpecEdgeDetection == InitEdgeDetection /\ [][NextEdgeDetection]_vars

IsUniform(img) ==
    \A p \in Pixels(img), c \in 0..3 : img.data[4 * p + c] = img.data[c]

IsInterior(img, x, y) ==
    x >= 1 /\ x <= img.width - 2 /\ y >= 1 /\ y <= img.height - 2

(* C14: on a buffer painted in one colour, Edge Detection gives R = G = B = 0
   at every interior pixel. *)
C14_UniformHasNoEdges ==
    [][(calls' = calls + 1 /\ IsUniform(image)) =>
        \A x \in Columns(image), y \in Rows(image) :
            IsInterior(image, x, y) =>
                /\ SampleAt(result', x, y, 0) = 0
                /\ SampleAt(result', x, y, 1) = 0
                /\ SampleAt(result', x, y, 2) = 0]_vars

C14_Witness ==
    /\ pc = "call"
    /\ calls = 1
    /\ image = UniformImage(<<4, 3>>, <<255, 128, 1, 255>>)
    /\ SampleAt(result, 1, 1, 0) = 0
    /\ SampleAt(result, 2, 1, 2) = 0
    /\ SampleAt(result, 2, 1, 3) = 255

(* R + G + B of the pixel at (x, y): three times its luminance *)
Lum3(img, x, y) ==
    SampleAt(img, x, y, 0) + SampleAt(img, x, y, 1) + SampleAt(img, x, y, 2)

(* three times the horizontal and the vertical Sobel response at (x, y) *)
Gx3(img, x, y) ==
    (Lum3(img, x + 1, y - 1) + 2 * Lum3(img, x + 1, y) + Lum3(img, x + 1, y + 1))
    - (Lum3(img, x - 1, y - 1) + 2 * Lum3(img, x - 1, y) + Lum3(img, x - 1, y + 1))

Gy3(img, x, y) ==
    (Lum3(img, x - 1, y + 1) + 2 * Lum3(img, x, y + 1) + Lum3(img, x + 1, y + 1))
    - (Lum3(img, x - 1, y - 1) + 2 * Lum3(img, x, y - 1) + Lum3(img, x + 1, y - 1))

(* m is sqrt(Gx^2 + Gy^2) clamped to [0,255], to the nearest integer: with
   s = (3 Gx)^2 + (3 Gy)^2, m - 1/2 <= sqrt(s) / 3 < m + 1/2 unless clamped *)
IsClampedMagnitude(m, s) ==
    /\ m \in 0..255
    /\ m > 0 => 9 * (2 * m - 1) * (2 * m - 1) <= 4 * s
    /\ m < 255 => 4 * s < 9 * (2 * m + 1) * (2 * m + 1)

(* C15: at every interior pixel R, G and B hold the Sobel magnitude clamped
   to [0,255] and alpha is 255; every pixel of the 1-pixel border is zero in
   all channels, so the whole output is zero when width < 3 or height < 3. *)
C15_EdgeDetectionOutput ==
    [][calls' = calls + 1 =>
        /\ result'.width = image.width
        /\ result'.height = image.height
        /\ DOMAIN result'.data = DOMAIN image.data
        /\ \A x \in Columns(image), y \in Rows(image) :
              IF IsInterior(image, x, y)
              THEN LET gx == Gx3(image, x, y)
                       gy == Gy3(image, x, y)
                   IN  /\ IsClampedMagnitude(SampleAt(result', x, y, 0),
                                             gx * gx + gy * gy)
                       /\ SampleAt(result', x, y, 1) = SampleAt(result', x, y, 0)
                       /\ SampleAt(result', x, y, 2) = SampleAt(result', x, y, 0)
                       /\ SampleAt(result', x, y, 3) = 255
              ELSE \A c \in 0..3 : SampleAt(result', x, y, c) = 0
        /\ (image.width < 3 \/ image.height < 3) =>
              \A i \in DOMAIN result'.data : result'.data[i] = 0]_vars

(* a 3x3 image whose right column is coloured: the centre gets the clamped
   magnitude 255, the border stays zero *)
C15_Witness ==
    /\ pc = "call"
    /\ calls = 1
    /\ image.width = 3 /\ image.height = 3
    /\ \A y \in 0..2 : /\ SampleAt(image, 0, y, 0) = 0
                       /\ SampleAt(image, 1, y, 0) = 0
                       /\ SampleAt(image, 2, y, 0) = 200
    /\ SampleAt(result, 1, 1, 0) = 255
    /\ SampleAt(result, 1, 1, 3) = 255
    /\ SampleAt(result, 0, 0, 3) = 0
    /\ SampleAt(result, 2, 1, 0) = 0

----------------------------------------------------------------------------
(* applyGamma with a gamma g and then with 1 / g, on the same ImageData: the
   canvas keeps the samples the ImageData was read from *)

CallApplyGamma ==
    /\ pc = "call"
    /\ calls < MaxCalls
    /\ result' = applyGamma(image, param)
    /\ image' = result'
    /\ calls' = calls + 1
    /\ pc' = "reciprocal"
    /\ UNCHANGED <<param, canvas, hasContext, effects, idx, processedData,
                   processedCanvas, returned, error, console>>
    /\ UNCHANGED historyVars

CallApplyGammaOfReciprocal ==
    /\ pc = "reciprocal"
    /\ calls < MaxCalls
    /\ result' = applyGammaOfReciprocal(image, param)
    /\ image' = result'
    /\ calls' = calls + 1
    /\ pc' = "done"
    /\ UNCHANGED <<param, canvas, hasContext, effects, idx, processedData,
                   processedCanvas, returned, error, console>>
    /\ UNCHANGED historyVars

(* gammas of the slider (0.1 to 3 in steps of 0.1), in tenths *)
GammaParams == {5, 7, 8, 10, 12, 20, 30}

GammaPixel(v, a) == <<v, 255 - v, (7 * v) % 256, a>>

GammaCanvases ==
    {CanvasOf(1, 1, [p \in 0..0 |-> GammaPixel(v, a)]) :
        v \in 0..255, a \in {0, 255}}
    \cup {CanvasOf(2, 1, [p \in 0..1 |->
                IF p = 0 THEN GammaPixel(v, a) ELSE GammaPixel(255 - v, 255 - a)]) :
            v \in 0..255, a \in {0, 255}}

InitGamma ==
    /\ canvas \in GammaCanvases
    /\ image = ImageOf(canvas)
    /\ param \in GammaParams
    /\ result = NoImage
    /\ calls = 0
    /\ pc = "call"
    /\ PipelineIdle
    /\ HistoryIdle

NextGamma == CallApplyGamma \/ CallApplyGammaOfReciprocal

SpecGamma == InitGamma /\ [][NextGamma]_vars

Distance(a, b) == IF a >= b THEN a - b ELSE b - a

RoundTripWithinOne ==
    /\ image.width = canvas.width
    /\ image.height = canvas.height
    /\ DOMAIN image.data = DOMAIN canvas.data
    /\ \A i \in DOMAIN canvas.data :
          IF i % 4 = 3 THEN image.data[i] = canvas.data[i]
          ELSE Distance(image.data[i], canvas.data[i]) <= 1

(* C16: for every channel value v in 0..255 and every supported gamma g,
   Gamma(g) followed by Gamma(1/g) gives a value within 1 of v, and alpha is
   unchanged by both passes. *)
C16_GammaRoundTrip ==
    pc = "done" => RoundTripWithinOne

(* C16 amended: the same for every gamma g with 0.8 <= g <= 3. *)
C16_GammaRoundTripFrom08 ==
    (pc = "done" /\ param >= 8) => RoundTripWithinOne

(* gamma 2 then gamma 0.5 on the value 72: 72 -> 135 -> 71 *)
C16_Witness ==
    /\ pc = "done"
    /\ calls = 2
    /\ param = 20
    /\ canvas.data[0] = 72
    /\ image.data[0] = 71
    /\ image.data[3] = canvas.data[3]

----------------------------------------------------------------------------
(* The pipeline on 4x4 horizontal black-to-white gradients with a chain
   [gamma, threshold] *)

(* gray levels of the two middle columns *)
GradientLevels == {64, 85, 128, 170, 191}

GradientCanvas(g1, g2, a) ==
    LET level == <<0, g1, g2, 255>>
    IN  CanvasOf(4, 4, [p \in 0..15 |->
            <<level[(p % 4) + 1], level[(p % 4) + 1], level[(p % 4) + 1], a>>])

GradientCanvases ==
    {GradientCanvas(g[1], g[2], a) :
        g \in {gg \in GradientLevels \X GradientLevels :
                    gg[2] >= 128 /\ gg[2] >= gg[1]},
        a \in {128, 255}}

GradientChain(g, t) ==
    <<Effect("gamma", TRUE, Config(g)), Effect("threshold", TRUE, Config(t))>>

GradientChains == {GradientChain(g, t) : g \in GammaParams, t \in {1, 128, 254}}

InitGradient ==
    /\ canvas \in GradientCanvases
    /\ hasContext = TRUE
    /\ effects \in GradientChains
    /\ pc = "start"
    /\ idx = 0
    /\ processedData = NoImage
    /\ processedCanvas = NoCanvas
    /\ returned = "none"
    /\ error = "none"
    /\ console = <<>>
    /\ image = NoImage
    /\ param = 0
    /\ result = NoImage
    /\ calls = 0
    /\ HistoryIdle

NextGradient ==
    \/ GetImageData
    \/ RasterStep
    \/ ReturnProcessedCanvas

SpecGradient == InitGradient /\ [][NextGradient]_vars

(* C17: with the chain [Gamma(1.2), Threshold(128)] every pixel of the
   leftmost column of the output is (0,0,0) and every pixel of the rightmost
   column is (255,255,255); Gamma maps 0 to 0 and 255 to 255 for every
   gamma. *)
C17_GradientEnds ==
    /\ (pc = "done" /\ effects = GradientChain(12, 128)) =>
          \A y \in 0..3, c \in 0..2 :
              /\ SampleAt(processedCanvas, 0, y, c) = 0
              /\ SampleAt(processedCanvas, 3, y, c) = 255
    /\ (pc = "raster" /\ idx = 2) =>
          \A i \in DOMAIN canvas.data :
              (i % 4 # 3 /\ canvas.data[i] \in {0, 255}) =>
                  processedData.data[i] = canvas.data[i]

C17_Witness ==
    /\ pc = "done"
    /\ returned = "processed"
    /\ canvas = GradientCanvas(85, 170, 255)
    /\ effects = GradientChain(12, 128)
    /\ \A y \in 0..3 :
          /\ SampleAt(processedCanvas, 0, y, 0) = 0
          /\ SampleAt(processedCanvas, 1, y, 1) = 0
          /\ SampleAt(processedCanvas, 2, y, 2) = 255
          /\ SampleAt(processedCanvas, 3, y, 0) = 255
          /\ SampleAt(processedCanvas, 3, y, 3) = 255

----------------------------------------------------------------------------
(* The pipeline on 2x2 canvases whose sample values are pairwise distinct,
   with a threshold and an rgb-shift descriptor in either order *)

(* pixels no two of which share a sample value: four dark, two bright *)
DistinctPalette ==
    {<<10, 20, 30, 250>>, <<11, 21, 31, 251>>, <<40, 50, 60, 252>>,
     <<70, 80, 90, 253>>, <<150, 160, 170, 254>>, <<200, 210, 220, 255>>}

DistinctCanvases ==
    {CanvasOf(2, 2, px) :
        px \in {f \in [0..3 -> DistinctPalette] :
                    \A p, q \in 0..3 : p # q => f[p] # f[q]}}

MidThresholds == {64, 128, 192}

PositiveAmounts == {1, 2, 3}

OrderChains ==
    UNION {{<<Effect("threshold", TRUE, Config(t)), Effect("rgb-shift", TRUE, Config(a))>>,
            <<Effect("rgb-shift", TRUE, Config(a)), Effect("threshold", TRUE, Config(t))>>} :
                t \in MidThresholds, a \in PositiveAmounts}

InitOrder ==
    /\ canvas \in DistinctCanvases
    /\ hasContext = TRUE
    /\ effects \in OrderChains
    /\ pc = "start"
    /\ idx = 0
    /\ processedData = NoImage
    /\ processedCanvas = NoCanvas
    /\ returned = "none"
    /\ error = "none"
    /\ console = <<>>
    /\ image = NoImage
    /\ param = 0
    /\ result = NoImage
    /\ calls = 0
    /\ HistoryIdle

NextOrder ==
    \/ GetImageData
    \/ RasterStep
    \/ ReturnProcessedCanvas

SpecOrder == InitOrder /\ [][NextOrder]_vars

Swapped(chain) == <<chain[2], chain[1]>>

(* the threshold the chain's threshold descriptor carries *)
ThresholdOf(chain) ==
    IF chain[1].type = "threshold" THEN ThresholdArg(chain[1])
    ELSE ThresholdArg(chain[2])

(* some row of cv has a pixel with gray above t and a pixel with gray at or
   below t *)
HasMixedRow(cv, t) ==
    \E y \in 0..(cv.height - 1) :
        \E x1, x2 \in 0..(cv.width - 1) :
            /\ Lum3(cv, x1, y) > 3 * t
            /\ Lum3(cv, x2, y) <= 3 * t

C18_OrdersDiffer ==
    processedCanvas.data # applyEffectsToCanvas(canvas, Swapped(effects)).data

(* C18: for a 2x2 buffer with pairwise distinct channel values, a mid-range
   threshold and a shift amount > 0, [Threshold, RGBShift] and
   [RGBShift, Threshold] give different output buffers. *)
C18_OrderSensitive ==
    Finished => C18_OrdersDiffer

(* C18 amended: they give different outputs whenever some row of the buffer
   holds a pixel whose gray is above the threshold and one whose gray is
   not. *)
C18_OrderSensitiveOnMixedRow ==
    (Finished /\ HasMixedRow(canvas, ThresholdOf(effects))) => C18_OrdersDiffer

(* threshold then shift leaves a pixel that is not gray in the mixed row *)
C18_Witness ==
    /\ Finished
    /\ effects = <<Effect("threshold", TRUE, Config(128)),
                   Effect("rgb-shift", TRUE, Config(1))>>
    /\ canvas = CanvasOf(2, 2, [p \in 0..3 |->
                    <<<<10, 20, 30, 250>>, <<200, 210, 220, 255>>,
                      <<11, 21, 31, 251>>, <<40, 50, 60, 252>>>>[p + 1]])
    /\ SampleAt(processedCanvas, 0, 0, 0) = 255
    /\ SampleAt(processedCanvas, 0, 0, 1) = 0
    /\ SampleAt(processedCanvas, 0, 0, 2) = 0
    /\ C18_OrdersDiffer

----------------------------------------------------------------------------
(* applyGrainEffect of the ColorGrid component: each run of the drawing
   effect paints the same cells on the canvas and then adds the grain, which
   draws one Math.random() per pixel.  The draws are the state of no variable
   and the argument of no call: each run chooses them anew. *)

MaxGrainPixels == 2

(* the values Math.random() takes, in quarters: 0, 1/4, 1/2, 3/4 *)
RandomDraws == 0..3

(* random[p] is the draw for pixel p; noise = (random - 0.5) * (opacity / 100)
   * 255 is added to the three colour samples of the pixel *)
applyGrainEffect(imageData, opacity, random) ==
    [imageData EXCEPT !.data =
        [i \in DOMAIN imageData.data |->
            IF i % 4 = 3 THEN imageData.data[i]
            ELSE ToUint8Clamp(400 * imageData.data[i]
                                + (random[i \div 4] - 2) * opacity * 255, 400)]]

CallApplyGrainEffect ==
    /\ pc = "call"
    /\ calls < MaxCalls
    /\ \E random \in [Pixels(image) -> RandomDraws] :
          result' = applyGrainEffect(image, param, random)
    /\ calls' = calls + 1
    /\ UNCHANGED <<image, param, pipelineVars>>
    /\ UNCHANGED historyVars

GrainCanvases ==
    {cv \in CanvasesOver(ThresholdPalette) :
        cv.width > 0 /\ cv.height > 0 /\ cv.width * cv.height <= MaxGrainPixels}

GrainOpacities == {0, 10, 30, 100}

InitGrain ==
    /\ canvas \in GrainCanvases
    /\ image = ImageOf(canvas)
    /\ param \in GrainOpacities
    /\ result = NoImage
    /\ calls = 0
    /\ pc = "call"
    /\ PipelineIdle
    /\ HistoryIdle

NextGrain == CallApplyGrainEffect

SpecGrain == InitGrain /\ [][NextGrain]_vars

(* C19: two runs of Grain with the same opacity on the same input buffer
   give identical output buffers. *)
C19_GrainReproducible ==
    [][(calls >= 1 /\ calls' = calls + 1) => result' = result]_vars

----------------------------------------------------------------------------

(* buf has the width and height of cv and width * height * 4 samples *)
SameShape(buf, cv) ==
    /\ buf.width = cv.width
    /\ buf.height = cv.height
    /\ DOMAIN buf.data = 0..(buf.width * buf.height * 4 - 1)

(* C20: the buffer every raster effect of the chain returns, and the canvas
   the pipeline returns, have the width and height of the input and
   width * height * 4 samples. *)
C20_DimensionsPreserved ==
    /\ pc = "raster" => SameShape(processedData, canvas)
    /\ pc = "done" => SameShape(Output, canvas)

C20_Witness ==
    /\ Finished
    /\ canvas.width = 2 /\ canvas.height = 1
    /\ Len(effects) = 2
    /\ effects[1].type = "rgb-shift" /\ effects[1].enabled
    /\ effects[2].type = "edge-detection" /\ effects[2].enabled
    /\ processedCanvas.width = 2 /\ processedCanvas.height = 1
    /\ DOMAIN processedCanvas.data = 0..7

----------------------------------------------------------------------------

(* C21: no raster transform modifies the buffer it receives: after the call
   every sample of the input ImageData is the same as before. *)
C21_InputUnmodified ==
    [][calls' = calls + 1 => image' = image]_vars

----------------------------------------------------------------------------
(* applyDithering one channel visit at a time: idx counts the visits of the
   loops over y, x and c, image is the ImageData being written, canvas keeps
   the samples it was read from *)

DitherStep ==
    /\ pc = "dither"
    /\ idx < image.width * image.height * 3
    /\ image' = [image EXCEPT !.data =
                    DitherChannel(image.data, image.width, image.height,
                                  (idx \div 3) % image.width,
                                  (idx \div 3) \div image.width, idx % 3)]
    /\ idx' = idx + 1
    /\ UNCHANGED <<canvas, hasContext, effects, pc, processedData,
                   processedCanvas, returned, error, console, param, result,
                   calls>>
    /\ UNCHANGED historyVars

DitherReturn ==
    /\ pc = "dither"
    /\ idx >= image.width * image.height * 3
    /\ result' = image
    /\ calls' = calls + 1
    /\ pc' = "done"
    /\ UNCHANGED <<canvas, hasContext, effects, idx, processedData,
                   processedCanvas, returned, error, console, image, param>>
    /\ UNCHANGED historyVars

DitherCanvases ==
    UNION {{CanvasOf(wh[1], wh[2], px) :
                px \in [0..(wh[1] * wh[2] - 1) -> ThresholdPalette]} :
           wh \in {s \in (1..MaxDitherPixels) \X (1..MaxDitherPixels) :
                        s[1] * s[2] <= MaxDitherPixels}}

InitDitherSteps ==
    /\ canvas \in DitherCanvases
    /\ image = ImageOf(canvas)
    /\ pc = "dither"
    /\ idx = 0
    /\ param = 0
    /\ result = NoImage
    /\ calls = 0
    /\ hasContext = FALSE
    /\ effects = <<>>
    /\ processedData = NoImage
    /\ processedCanvas = NoCanvas
    /\ returned = "none"
    /\ error = "none"
    /\ console = <<>>
    /\ HistoryIdle

NextDitherSteps == DitherStep \/ DitherReturn

SpecDitherSteps == InitDitherSteps /\ [][NextDitherSteps]_vars

(* the index of the sample that the k-th channel visit binarizes when the
   pixels are taken in row-major order *)
VisitedSample(k) == (k \div 3) * 4 + (k % 3)

(* sample j belongs to the same channel of the right, below-left, below or
   below-right neighbour of the pixel visited at step k, inside the buffer *)
IsLaterNeighbour(img, k, j) ==
    LET x == (k \div 3) % img.width
        y == (k \div 3) \div img.width
        jx == (j \div 4) % img.width
        jy == (j \div 4) \div img.width
    IN  /\ j % 4 = k % 3
        /\ jx \in 0..(img.width - 1)
        /\ jy \in 0..(img.height - 1)
        /\ \/ jy = y /\ jx = x + 1
           \/ jy = y + 1 /\ jx \in {x - 1, x, x + 1}

(* C22: the k-th visit binarizes the k-th colour sample in row-major order
   and changes besides it only samples of the right, below-left, below and
   below-right neighbours inside the buffer: a sample binarized earlier is
   never written again, nothing is written outside the buffer or across the
   end of a row. *)
C22_DitheringOrder ==
    [][(pc = "dither" /\ idx' = idx + 1) =>
        /\ DOMAIN image'.data = DOMAIN image.data
        /\ image'.data[VisitedSample(idx)] \in {0, 255}
        /\ \A j \in DOMAIN image.data :
              (j # VisitedSample(idx) /\ image'.data[j] # image.data[j]) =>
                  IsLaterNeighbour(image, idx, j)
        /\ \A k \in 0..(idx - 1) :
              image'.data[VisitedSample(k)] = image.data[VisitedSample(k)]]_vars

(* a 3x2 image after its first row: the row is binarized and error has
   reached the second row *)
C22_Witness ==
    /\ pc = "dither"
    /\ idx = 9
    /\ canvas.width = 3 /\ canvas.height = 2
    /\ \A k \in 0..8 : image.data[VisitedSample(k)] \in {0, 255}
    /\ \E j \in 12..23 : image.data[j] # canvas.data[j]
    /\ \E j \in 0..11 : image.data[j] # canvas.data[j]

(* the visits of SpecDitherSteps end in the buffer applyDithering returns *)
DitherStepsGiveApplyDithering ==
    pc = "done" => result = applyDithering(ImageOf(canvas))

----------------------------------------------------------------------------

(* the sample v after the noise of the draw r is added at the given opacity,
   clamped to [0,255] *)
NoisySample(v, opacity, r) ==
    ToUint8Clamp(400 * v + (r - 2) * opacity * 255, 400)

(* pixel p of out is pixel p of img with the noise of the draws draw[1],
   draw[2], draw[3] added to R, G and B, and the alpha of img *)
IsPixelWithDraws(out, img, opacity, p, draw) ==
    /\ out.data[4 * p] = NoisySample(img.data[4 * p], opacity, draw[1])
    /\ out.data[4 * p + 1] = NoisySample(img.data[4 * p + 1], opacity, draw[2])
    /\ out.data[4 * p + 2] = NoisySample(img.data[4 * p + 2], opacity, draw[3])
    /\ out.data[4 * p + 3] = img.data[4 * p + 3]

(* C23: Grain draws the noise independently for each of the R, G and B
   channels of each pixel: whatever three draws the channels of a pixel get,
   a run of Grain can give that pixel; each result is clamped to [0,255] and
   alpha is unchanged. *)
C23_GrainDrawsPerChannel ==
    (pc = "call" /\ calls < MaxCalls /\ canvas # NoImage) =>
        \A p \in Pixels(image) :
            \A draw \in RandomDraws \X RandomDraws \X RandomDraws :
                ENABLED (CallApplyGrainEffect
                         /\ IsPixelWithDraws(result', image, param, p, draw))

(* what the code does: every pixel of the output is the input pixel with the
   noise of one draw on all three channels, alpha unchanged *)
GrainDrawsPerPixel ==
    [][calls' = calls + 1 =>
        \A p \in Pixels(image) :
            \E r \in RandomDraws :
                IsPixelWithDraws(result', image, param, p, <<r, r, r>>)]_vars

----------------------------------------------------------------------------
(* The pipeline with a chain of one enabled descriptor whose parameter runs
   over the documented range, 0 included, or is missing *)

StoredGammas == {5, 10, 12, 20}

StoredThresholds == {0, 1, 128, 255}

StoredAmounts == {0, 1, 3}

StoredChains ==
    {<<Effect("gamma", TRUE, c)>> :
        c \in {Config(v) : v \in StoredGammas} \cup {NoConfig}}
    \cup {<<Effect("threshold", TRUE, c)>> :
            c \in {Config(v) : v \in StoredThresholds} \cup {NoConfig}}
    \cup {<<Effect("rgb-shift", TRUE, c)>> :
            c \in {Config(v) : v \in StoredAmounts} \cup {NoConfig}}

InitStored ==
    /\ canvas \in SourceCanvases
    /\ hasContext = TRUE
    /\ effects \in StoredChains
    /\ pc = "start"
    /\ idx = 0
    /\ processedData = NoImage
    /\ processedCanvas = NoCanvas
    /\ returned = "none"
    /\ error = "none"
    /\ console = <<>>
    /\ image = NoImage
    /\ param = 0
    /\ result = NoImage
    /\ calls = 0
    /\ HistoryIdle

NextStored ==
    \/ GetImageData
    \/ RasterStep
    \/ ReturnProcessedCanvas

SpecStored == InitStored /\ [][NextStored]_vars

(* the value the descriptor carries, or the documented default when it
   carries none *)
StoredOr(effect, default) ==
    IF effect.config.present THEN effect.config.value ELSE default

(* the effect of the descriptor applied with exactly its stored value;
   defaults 1.2, 128 and 3 *)
EffectWithStoredValue(imageData, effect) ==
    CASE effect.type = "gamma" ->
            applyGamma(imageData, StoredOr(effect, 12))
      [] effect.type = "threshold" ->
            applyThreshold(imageData, StoredOr(effect, 128))
      [] effect.type = "rgb-shift" ->
            applyRGBShift(imageData, StoredOr(effect, 3))

(* C24: the pipeline applies each effect with exactly the value stored in its
   descriptor, 0 included (threshold 0: white iff R + G + B > 0; rgb-shift 0:
   buffer unchanged), and with the default 1.2, 128 or 3 only when the
   descriptor carries no value. *)
C24_StoredValueUsed ==
    (Finished /\ Len(effects) = 1
        /\ effects[1].type \in {"gamma", "threshold", "rgb-shift"}
        /\ effects[1].enabled) =>
        /\ processedCanvas.data =
              EffectWithStoredValue(ImageOf(canvas), effects[1]).data
        /\ (effects[1] = Effect("threshold", TRUE, Config(0))) =>
              \A p \in Pixels(canvas), c \in 0..2 :
                  processedCanvas.data[4 * p + c] =
                      IF Lum3(canvas, p % canvas.width, p \div canvas.width) > 0
                      THEN 255 ELSE 0
        /\ (effects[1] = Effect("rgb-shift", TRUE, Config(0))) =>
              processedCanvas.data = canvas.data

(* what holds: every stored value other than 0 is used as it is *)
StoredNonZeroValueUsed ==
    (Finished /\ Len(effects) = 1 /\ effects[1].config.present
        /\ effects[1].config.value # 0) =>
        processedCanvas.data =
            EffectWithStoredValue(ImageOf(canvas), effects[1]).data

----------------------------------------------------------------------------
(* From rendering to export: the drawing effect of ColorGrid paints the
   cells on the preview canvas and puts the effect chain's output back on
   it; downloadGridAsPNG copies the preview canvas (scale 1) and hands the
   exporter the canvas it gets from the chain.  image is the raster of the
   painted cells, canvas the bitmap of the preview canvas, result the bitmap
   handed to toBlob. *)

(* the bitmap of canvas cv: drawImage at scale 1 onto a cleared canvas *)
DrawImage(cv) == [width |-> cv.width, height |-> cv.height, data |-> cv.data]

SomeEnabled(chain) == \E k \in DOMAIN chain : chain[k].enabled

RenderGrid ==
    /\ pc = "render"
    /\ processedCanvas' = IF Len(effects) > 0
                          THEN applyEffectsToCanvas(image, effects)
                          ELSE processedCanvas
    /\ canvas' = IF Len(effects) > 0 THEN DrawImage(processedCanvas')
                 ELSE DrawImage(image)
    /\ pc' = "rendered"
    /\ UNCHANGED <<hasContext, effects, idx, processedData, returned, error,
                   console, image, param, result, calls>>
    /\ UNCHANGED historyVars

DownloadGridAsPNG ==
    /\ pc = "rendered"
    /\ result' = IF SomeEnabled(effects)
                 THEN DrawImage(applyEffectsToCanvas(DrawImage(canvas), effects))
                 ELSE DrawImage(canvas)
    /\ returned' = "blob"
    /\ pc' = "exported"
    /\ UNCHANGED <<canvas, hasContext, effects, idx, processedData,
                   processedCanvas, error, console, image, param, calls>>
    /\ UNCHANGED historyVars

(* opaque cell colours *)
CellPalette == {<<0, 0, 0, 255>>, <<200, 100, 91, 255>>}

GridRasters ==
    {cv \in CanvasesOver(CellPalette) : cv.width > 0 /\ cv.height > 0}

ExportEffects ==
    {Effect("gamma", TRUE, Config(20)), Effect("threshold", TRUE, Config(128)),
     Effect("rgb-shift", TRUE, Config(1)), Effect("edge-detection", TRUE, NoConfig),
     Effect("dithering", TRUE, NoConfig), Effect("blur", TRUE, Config(2)),
     Effect("gamma", FALSE, Config(20))}

ExportChains == UNION {[1..n -> ExportEffects] : n \in 0..MaxChain}

InitExport ==
    /\ image \in GridRasters
    /\ effects \in ExportChains
    /\ canvas = NoImage
    /\ hasContext = TRUE
    /\ pc = "render"
    /\ idx = 0
    /\ processedData = NoImage
    /\ processedCanvas = NoCanvas
    /\ returned = "none"
    /\ error = "none"
    /\ console = <<>>
    /\ param = 1
    /\ result = NoImage
    /\ calls = 0
    /\ HistoryIdle

NextExport == RenderGrid \/ DownloadGridAsPNG

SpecExport == InitExport /\ [][NextExport]_vars

(* C25: the bitmap handed to the exporter is the effect chain applied once
   to the unprocessed grid raster. *)
C25_EffectsAppliedOnce ==
    pc = "exported" =>
        result = DrawImage(applyEffectsToCanvas(image, effects))

(* what the code does: the exported bitmap is the chain applied to the
   preview canvas, which already holds the chain's output *)
ExportAppliesChainAgain ==
    (pc = "exported" /\ SomeEnabled(effects)) =>
        result = DrawImage(applyEffectsToCanvas(
                     applyEffectsToCanvas(image, effects), effects))

----------------------------------------------------------------------------
(* The effects panel.  effects is the chain the panel is rendered with; every
   handler hands onEffectsChange a new chain, which the next render shows.
   A descriptor of the panel carries its id and its whole config object: the
   config is a function from the keys of EffectConfig to the one parameter
   stored under the key.  pc names the handler that ran last. *)

MaxPanelEffects == 2

(* the kinds with one editable parameter *)
PanelTypes == {"blur", "gamma", "threshold", "rgb-shift", "vignette"}

(* the keys a config object can get: those of EffectConfig and, from
   updateConfig, the kind itself *)
ConfigKeys == {"blur", "gamma", "threshold", "rgbShift", "vignette", "rgb-shift"}

(* the values Date.now() gives *)
Timestamps == {1, 2}

(* a value the slider of a kind is moved to (gamma in tenths) *)
SliderValues == {7}

EmptyConfig == [k \in ConfigKeys |-> NoConfig]

defaultConfigs(type) ==
    CASE type = "blur" -> [EmptyConfig EXCEPT !["blur"] = Config(2)]
      [] type = "gamma" -> [EmptyConfig EXCEPT !["gamma"] = Config(12)]
      [] type = "threshold" -> [EmptyConfig EXCEPT !["threshold"] = Config(128)]
      [] type = "vignette" -> [EmptyConfig EXCEPT !["vignette"] = Config(50)]
      [] type = "rgb-shift" -> [EmptyConfig EXCEPT !["rgbShift"] = Config(3)]

createDefaultEffect(type, now) ==
    [id |-> <<type, now>>, type |-> type, enabled |-> TRUE,
     config |-> defaultConfigs(type)]

addEffect(chain, type, now) == Append(chain, createDefaultEffect(type, now))

removeEffect(chain, id) ==
    LET Keep(effect) == effect.id # id
    IN  SelectSeq(chain, Keep)

toggleEffect(chain, id) ==
    [k \in DOMAIN chain |->
        IF chain[k].id = id
        THEN [chain[k] EXCEPT !.enabled = ~chain[k].enabled]
        ELSE chain[k]]

updateEffectConfig(chain, id, config) ==
    [k \in DOMAIN chain |->
        IF chain[k].id = id THEN [chain[k] EXCEPT !.config = config]
        ELSE chain[k]]

(* the config object updateConfig hands to onConfigChange: the new value is
   stored under the key effect.type *)
updateConfig(effect, value) ==
    [effect.config EXCEPT ![effect.type] = Config(value)]

(* effects.findIndex: the first position with the id, 0 for none *)
FindIndex(chain, id) ==
    IF \E k \in DOMAIN chain : chain[k].id = id
    THEN CHOOSE k \in DOMAIN chain :
            /\ chain[k].id = id
            /\ \A j \in 1..(k - 1) : chain[j].id # id
    ELSE 0

moveEffectWrapping(chain, id, direction) ==
    LET index == FindIndex(chain, id)
        step == IF direction = "up" THEN index - 1 ELSE index + 1
        newIndex == IF step < 1 THEN Len(chain)
                    ELSE IF step > Len(chain) THEN 1 ELSE step
    IN  IF index = 0 THEN chain
        ELSE [chain EXCEPT ![index] = chain[newIndex],
                           ![newIndex] = chain[index]]

moveEffect(chain, id, direction) ==
    LET index == FindIndex(chain, id)
        newIndex == IF direction = "up" THEN index - 1 ELSE index + 1
    IN  IF index = 0 THEN chain
        ELSE IF newIndex < 1 \/ newIndex > Len(chain) THEN chain
        ELSE [chain EXCEPT ![index] = chain[newIndex],
                           ![newIndex] = chain[index]]

(* the key under which the pipeline and the filter pass read the parameter
   of a kind *)
PipelineKey(type) == IF type = "rgb-shift" THEN "rgbShift" ELSE type

PanelIds == PanelTypes \X Timestamps

PanelFrame ==
    UNCHANGED <<canvas, hasContext, idx, processedData, processedCanvas,
                returned, error, console, image, param, result, calls,
                history, currentIndex>>

(* Date.now() is not below the time of a descriptor made earlier *)
NotBefore(chain, now) == \A k \in DOMAIN chain : chain[k].id[2] <= now

AddEffectAlways ==
    /\ Len(effects) < MaxPanelEffects
    /\ \E type \in PanelTypes, now \in Timestamps :
          /\ NotBefore(effects, now)
          /\ effects' = addEffect(effects, type, now)
    /\ pc' = "addEffect"
    /\ PanelFrame

(* a click on a button of the Add Effect list that is not disabled *)
AddEffect ==
    /\ Len(effects) < MaxPanelEffects
    /\ \E type \in PanelTypes, now \in Timestamps :
          /\ ~\E k \in DOMAIN effects : effects[k].type = type
          /\ NotBefore(effects, now)
          /\ effects' = addEffect(effects, type, now)
    /\ pc' = "addEffect"
    /\ PanelFrame

RemoveEffect ==
    /\ \E k \in DOMAIN effects : effects' = removeEffect(effects, effects[k].id)
    /\ pc' = "removeEffect"
    /\ PanelFrame

ToggleEffect ==
    /\ \E k \in DOMAIN effects : effects' = toggleEffect(effects, effects[k].id)
    /\ pc' = "toggleEffect"
    /\ PanelFrame

(* the slider of an enabled descriptor is moved *)
EditParameter ==
    /\ \E k \in DOMAIN effects, value \in SliderValues :
          /\ effects[k].enabled
          /\ effects' = updateEffectConfig(effects, effects[k].id,
                                           updateConfig(effects[k], value))
    /\ pc' = "updateEffectConfig"
    /\ PanelFrame

MoveEffect ==
    /\ \E id \in PanelIds, direction \in {"up", "down"} :
          effects' = moveEffect(effects, id, direction)
    /\ pc' = "moveEffect"
    /\ PanelFrame

InitPanel ==
    /\ effects = <<>>
    /\ pc = "render"
    /\ canvas = NoImage
    /\ hasContext = FALSE
    /\ idx = 0
    /\ processedData = NoImage
    /\ processedCanvas = NoCanvas
    /\ returned = "none"
    /\ error = "none"
    /\ console = <<>>
    /\ image = NoImage
    /\ param = 0
    /\ result = NoImage
    /\ calls = 0
    /\ HistoryIdle

NextPanel ==
    \/ AddEffect
    \/ RemoveEffect
    \/ ToggleEffect
    \/ EditParameter
    \/ MoveEffect

SpecPanel == InitPanel /\ [][NextPanel]_vars

----------------------------------------------------------------------------

(* the value stored where the next pipeline run reads the parameter *)
PipelineValue(effect) == effect.config[PipelineKey(effect.type)]

(* C26: an edit of the parameter of a descriptor through the panel changes
   exactly the value the pipeline reads for that descriptor on its next run
   and changes no other descriptor. *)
C26_EditReachesPipeline ==
    [][pc' = "updateEffectConfig" =>
        \A k \in DOMAIN effects, value \in SliderValues :
            (/\ effects[k].enabled
             /\ effects' = updateEffectConfig(effects, effects[k].id,
                                              updateConfig(effects[k], value))) =>
                /\ PipelineValue(effects'[k]) = Config(value)
                /\ \A j \in DOMAIN effects : j # k => effects'[j] = effects[j]]_vars

(* what holds: the edit reaches the pipeline for every kind but rgb-shift,
   and no edit changes another descriptor *)
EditReachesPipelineUnlessRGBShift ==
    [][pc' = "updateEffectConfig" =>
        \A k \in DOMAIN effects, value \in SliderValues :
            (/\ effects[k].enabled
             /\ effects' = updateEffectConfig(effects, effects[k].id,
                                              updateConfig(effects[k], value))) =>
                /\ effects[k].type # "rgb-shift" =>
                      PipelineValue(effects'[k]) = Config(value)
                /\ \A j \in DOMAIN effects : j # k => effects'[j] = effects[j]]_vars

(* C27: from the empty chain, after any sequence of panel operations, no two
   descriptors of the chain have the same kind, and no two the same id. *)
C27_OneDescriptorPerKind ==
    \A j, k \in DOMAIN effects :
        j # k => (effects[j].type # effects[k].type /\ effects[j].id # effects[k].id)

(* a chain of two that was reordered: the younger descriptor stands first *)
C27_Witness ==
    /\ pc = "toggleEffect"
    /\ Len(effects) = 2
    /\ effects[1].id = <<"gamma", 2>>
    /\ effects[2].id = <<"blur", 1>>
    /\ ~effects[1].enabled
    /\ effects[2].config["blur"] = Config(7)

(* the position of the descriptor with the id, 0 when there is none *)
PositionOf(chain, id) ==
    IF \E k \in DOMAIN chain : chain[k].id = id
    THEN CHOOSE k \in DOMAIN chain : chain[k].id = id
    ELSE 0

IsSwapOf(new, chain, a, b) ==
    /\ Len(new) = Len(chain)
    /\ new[a] = chain[b]
    /\ new[b] = chain[a]
    /\ \A k \in DOMAIN chain : (k # a /\ k # b) => new[k] = chain[k]

(* C28: moveEffect(id, direction) leaves the chain unchanged when the id is
   not present, when the first descriptor is moved up or the last one down,
   and swaps the descriptor with its neighbour in that direction otherwise;
   the chain keeps its length and its descriptors, and a successful move up
   followed by a move down of the same id restores the order. *)
C28_MoveSwapsNeighbours ==
    [][pc' = "moveEffect" =>
        \A id \in PanelIds, direction \in {"up", "down"} :
            effects' = moveEffect(effects, id, direction) =>
                LET index == PositionOf(effects, id)
                IN  /\ Len(effects') = Len(effects)
                    /\ {effects'[k] : k \in DOMAIN effects'}
                          = {effects[k] : k \in DOMAIN effects}
                    /\ IF \/ index = 0
                          \/ direction = "up" /\ index = 1
                          \/ direction = "down" /\ index = Len(effects)
                       THEN effects' = effects
                       ELSE IF direction = "up"
                       THEN /\ IsSwapOf(effects', effects, index, index - 1)
                            /\ moveEffect(effects', id, "down") = effects
                       ELSE IsSwapOf(effects', effects, index, index + 1)]_vars

C28_Witness ==
    /\ pc = "moveEffect"
    /\ Len(effects) = 2
    /\ effects[1].id = <<"rgb-shift", 2>>
    /\ effects[2].id = <<"threshold", 1>>


----------------------------------------------------------------------------
(* The undo/redo history of the grid: useGridHistory                        *)
(*                                                                         *)
(* history is the list of GridState records [cells, timestamp], the first  *)
(* at index 0 as in the code (history[i] of the code is history[i + 1]     *)
(* here); a grid of cells is named by a number.  Every handler of the App  *)
(* calls at most one operation of the hook, and the hook is rendered again *)
(* before the next handler runs, so an operation reads the state the call  *)
(* before it left.  calls holds the number of states the slice of the last *)
(* addToHistory left out, and pc the operation called last.                *)

CellGrids == {1, 2}

GridState(cells, now) == [cells |-> cells, timestamp |-> now]

(* history.slice(0, end) *)
Slice(hist, end) == SubSeq(hist, 1, IF end < Len(hist) THEN end ELSE Len(hist))

addToHistoryKeepingUndone(hist, index, cells, now) ==
    LET newHistory == Append(hist, GridState(cells, now))
    IN  [history |-> newHistory, currentIndex |-> index + 1]

addToHistory(hist, index, cells, now) ==
    LET newHistory == Append(Slice(hist, index + 1), GridState(cells, now))
    IN  [history |-> newHistory, currentIndex |-> Len(newHistory) - 1]

resetHistory(cells, now) ==
    [history |-> <<GridState(cells, now)>>, currentIndex |-> 0]

undoUnguarded(index) == index - 1

undo(index) == IF index > 0 THEN index - 1 ELSE index

redo(hist, index) == IF index < Len(hist) - 1 THEN index + 1 ELSE index

canUndo == currentIndex > 0

canRedo == currentIndex < Len(history) - 1

(* history[currentIndex]?.cells || initialCells, initialCells being the
   cells of the first render *)
currentCells(hist, index, initialCells) ==
    IF index + 1 \in DOMAIN hist THEN hist[index + 1].cells ELSE initialCells

(* Date.now() is not below the time of a state made earlier *)
NotBeforeStates(hist, now) == \A k \in DOMAIN hist : hist[k].timestamp <= now

HistoryFrame ==
    UNCHANGED <<canvas, hasContext, effects, idx, processedData,
                processedCanvas, returned, error, console, image, param,
                result>>

AddToHistory ==
    /\ currentIndex + 2 <= MaxHistory
    /\ \E cells \in CellGrids, now \in Timestamps :
          /\ NotBeforeStates(history, now)
          /\ history' = addToHistory(history, currentIndex, cells, now).history
          /\ currentIndex' =
                addToHistory(history, currentIndex, cells, now).currentIndex
    /\ calls' = Len(history) - Len(Slice(history, currentIndex + 1))
    /\ pc' = "addToHistory"
    /\ HistoryFrame

ResetHistory ==
    /\ \E cells \in CellGrids, now \in Timestamps :
          /\ NotBeforeStates(history, now)
          /\ history' = resetHistory(cells, now).history
          /\ currentIndex' = resetHistory(cells, now).currentIndex
    /\ calls' = 0
    /\ pc' = "resetHistory"
    /\ HistoryFrame

Undo ==
    /\ currentIndex' = undo(currentIndex)
    /\ pc' = "undo"
    /\ UNCHANGED <<history, calls>>
    /\ HistoryFrame

Redo ==
    /\ currentIndex' = redo(history, currentIndex)
    /\ pc' = "redo"
    /\ UNCHANGED <<history, calls>>
    /\ HistoryFrame

InitHistory ==
    /\ \E initialCells \in CellGrids, now \in Timestamps :
          history = <<GridState(initialCells, now)>>
    /\ currentIndex = 0
    /\ pc = "mounted"
    /\ calls = 0
    /\ canvas = NoImage
    /\ hasContext = FALSE
    /\ effects = <<>>
    /\ idx = 0
    /\ processedData = NoImage
    /\ processedCanvas = NoCanvas
    /\ returned = "none"
    /\ error = "none"
    /\ console = <<>>
    /\ image = NoImage
    /\ param = 0
    /\ result = NoImage

NextHistory ==
    \/ AddToHistory
    \/ ResetHistory
    \/ Undo
    \/ Redo

SpecHistory == InitHistory /\ [][NextHistory]_vars

(* C29: after any sequence of addToHistory, undo, redo and resetHistory,
   the history is not empty and 0 <= currentIndex <= history.length - 1,
   canUndo holds exactly when currentIndex > 0 and canRedo exactly when
   currentIndex < history.length - 1, and an undo with canUndo false or a
   redo with canRedo false changes neither the history nor the index. *)
C29_HistoryInvariants ==
    /\ [](/\ Len(history) >= 1
          /\ 0 <= currentIndex
          /\ currentIndex <= Len(history) - 1
          /\ canUndo <=> currentIndex > 0
          /\ canRedo <=> currentIndex < Len(history) - 1)
    /\ [][/\ (pc' = "undo" /\ ~canUndo) => UNCHANGED historyVars
          /\ (pc' = "redo" /\ ~canRedo) => UNCHANGED historyVars]_vars

(* undo was called last and the first of three states is current: no
   further undo is possible, a redo is *)
C29_Witness ==
    /\ pc = "undo"
    /\ Len(history) = 3
    /\ currentIndex = 0
    /\ ~canUndo
    /\ canRedo

(* C30: addToHistory called after k undos leaves the states up to the
   index that was current, followed by the new state; the new state is
   current, canRedo is false, and an undo made next gives the cells that
   were current before the call. *)
C30_AddDiscardsUndone ==
    [][pc' = "addToHistory" =>
          /\ Len(history') = currentIndex + 2
          /\ SubSeq(history', 1, currentIndex + 1)
                = SubSeq(history, 1, currentIndex + 1)
          /\ currentIndex' = Len(history') - 1
          /\ ~canRedo'
          /\ \A initialCells \in CellGrids :
                currentCells(history', undo(currentIndex'), initialCells)
                   = currentCells(history, currentIndex, initialCells)]_vars

(* a state was added after two undos from a history of three: the two
   undone states are gone *)
C30_Witness ==
    /\ pc = "addToHistory"
    /\ calls = 2
    /\ Len(history) = 2
    /\ currentIndex = 1
    /\ history[1].cells # history[2].cells

====
